---- MODULE Spec2Model ----
(***************************************************************************)
(* borsh-cli: the six commands (pack, unpack, encode, decode, extract,     *)
(* strip), the Borsh wire format of byte vectors and of the schema         *)
(* container, the schema-driven walkers of dynamic_schema.rs, and the      *)
(* renaming of a schema's declarations in compress_schema.rs.              *)
(*                                                                         *)
(* Bytes are naturals 0..255.  A Rust String is the sequence of its UTF-8  *)
(* bytes.  Integers wider than the 32-bit integers of TLC are kept as      *)
(* little-endian byte sequences of their width (u32: 4, u64: 8, u128: 16), *)
(* so that no width is lost.                                               *)
(***************************************************************************)
EXTENDS Integers, Sequences, FiniteSets, TLC

VARIABLES
    cmd,        \* the command last run: its struct's fields follow
    input,      \* input: Vec<u8> of pack, unpack, decode, extract, strip
    json_in,    \* Encode.input: serde_json::Value
    schema_in,  \* Encode.schema: Option<BorshSchemaContainer>
    no_schema,  \* Pack.no_schema, Unpack.no_schema
    output,     \* the bytes the command wrote to its output
    json_out,   \* the JSON document decode wrote to its output
    result,     \* what execute() returned, or the panic that ended it
    walk,       \* what the walker of dynamic_schema.rs returned to its caller
    prev,       \* the command run before, when this one read what it wrote
    compressed, \* what compress_schema made of schema_in
    allocated   \* next_name_code of compress_schema, and the names next_name gave

vars ==
    <<cmd, input, json_in, schema_in, no_schema, output, json_out, result, walk, prev,
      compressed, allocated>>

(***************************************************************************)
(* Bounds of the model.                                                    *)
(***************************************************************************)
\* longest byte vector given to pack, and longest data tail of a blob
MaxLen == 2
\* longest JSON array / object generated for the encoder
MaxArr == 2
\* number of states of the decoder's HashMap hasher that are told apart
HashSeeds == 2
\* number of names the renaming loop is followed through from a given counter
MaxNames == 3

(***************************************************************************)
(* Sequence helpers.                                                       *)
(***************************************************************************)
Byte == 0..255

Drop(s, n) == IF n >= Len(s) THEN <<>> ELSE SubSeq(s, n + 1, Len(s))

Take(s, n) == IF n >= Len(s) THEN s ELSE SubSeq(s, 1, n)

RECURSIVE Concat(_)
Concat(ss) == IF ss = <<>> THEN <<>> ELSE Head(ss) \o Concat(Tail(ss))

Range(s) == {s[i] : i \in DOMAIN s}

Zeros(n) == [i \in 1..n |-> 0]

\* all sequences over S of length at most n
RECURSIVE SeqsUpTo(_, _)
SeqsUpTo(S, n) ==
    IF n = 0 THEN {<<>>}
    ELSE LET shorter == SeqsUpTo(S, n - 1)
         IN  shorter \cup {Append(s, x) : s \in {t \in shorter : Len(t) = n - 1}, x \in S}

(***************************************************************************)
(* Strings used by the model, as UTF-8 bytes.                              *)
(***************************************************************************)
s_u8     == <<117, 56>>
s_u16    == <<117, 49, 54>>
s_u32    == <<117, 51, 50>>
s_u64    == <<117, 54, 52>>
s_u128   == <<117, 49, 50, 56>>
s_i8     == <<105, 56>>
s_i16    == <<105, 49, 54>>
s_i32    == <<105, 51, 50>>
s_i64    == <<105, 54, 52>>
s_i128   == <<105, 49, 50, 56>>
s_f32    == <<102, 51, 50>>
s_f64    == <<102, 54, 52>>
s_string == <<115, 116, 114, 105, 110, 103>>
s_bool   == <<98, 111, 111, 108>>
\* "Vec<u8>", the declaration of Vec::<u8>
s_VecU8  == <<86, 101, 99, 60, 117, 56, 62>>

(***************************************************************************)
(* Borsh primitives (the borsh crate, as called from the commands).        *)
(* A reader returns [ok, v, rest]: the value and the advanced cursor.      *)
(***************************************************************************)
Fail == [ok |-> FALSE]

Got(v, rest) == [ok |-> TRUE, v |-> v, rest |-> rest]

\* u32::serialize of a small natural (a length)
LE32(n) == <<n % 256, (n \div 256) % 256, (n \div 65536) % 256, (n \div 16777216) % 256>>

\* the natural held by 4 little-endian bytes; lengths beyond 2^16 only ever
\* meet buffers far shorter than that, so they saturate at 65536
U32Nat(b) == IF b[3] = 0 /\ b[4] = 0 THEN b[1] + 256 * b[2] ELSE 65536

\* <[u8; n]>::deserialize: n raw bytes
ReadBytes(buf, n) == IF Len(buf) < n THEN Fail ELSE Got(Take(buf, n), Drop(buf, n))

\* u32::deserialize, kept as its 4 bytes
ReadU32(buf) == ReadBytes(buf, 4)

\* core::str::from_utf8: whether the bytes are well-formed UTF-8
RECURSIVE IsUtf8(_)
IsUtf8(b) ==
    LET n == Len(b)
        cont(i) == i <= n /\ b[i] >= 128 /\ b[i] <= 191
    IN  IF n = 0 THEN TRUE
        ELSE LET c == b[1]
             IN  IF c < 128 THEN IsUtf8(Drop(b, 1))
                 ELSE IF c >= 194 /\ c <= 223 THEN cont(2) /\ IsUtf8(Drop(b, 2))
                 ELSE IF c = 224 THEN cont(2) /\ b[2] >= 160 /\ cont(3) /\ IsUtf8(Drop(b, 3))
                 ELSE IF c = 237 THEN cont(2) /\ b[2] <= 159 /\ cont(3) /\ IsUtf8(Drop(b, 3))
                 ELSE IF c >= 225 /\ c <= 239 THEN cont(2) /\ cont(3) /\ IsUtf8(Drop(b, 3))
                 ELSE IF c = 240 THEN cont(2) /\ b[2] >= 144 /\ cont(3) /\ cont(4)
                                      /\ IsUtf8(Drop(b, 4))
                 ELSE IF c = 244 THEN cont(2) /\ b[2] <= 143 /\ cont(3) /\ cont(4)
                                      /\ IsUtf8(Drop(b, 4))
                 ELSE IF c >= 241 /\ c <= 243 THEN cont(2) /\ cont(3) /\ cont(4)
                                                   /\ IsUtf8(Drop(b, 4))
                 ELSE FALSE

\* Vec::<u8>::serialize and str::serialize: u32 length, then the bytes
SerBytes(b) == LE32(Len(b)) \o b

\* the ? operator on a reader's Result: the error returns at once
Try(r, F(_)) == IF r.ok THEN F(r) ELSE Fail

\* Vec::<u8>::deserialize
DeBytes(buf) == Try(ReadU32(buf), LAMBDA l : ReadBytes(l.rest, U32Nat(l.v)))

\* String::deserialize: a byte vector that must be UTF-8
DeString(buf) == Try(DeBytes(buf), LAMBDA r : IF IsUtf8(r.v) THEN r ELSE Fail)

\* bool::deserialize
DeBool(buf) ==
    IF Len(buf) < 1 \/ buf[1] > 1 THEN Fail ELSE Got(buf[1] = 1, Drop(buf, 1))

(***************************************************************************)
(* The schema model: borsh::schema::{BorshSchemaContainer, Definition,     *)
(* Fields}.  A Declaration is a String.  Definitions are records tagged by *)
(* k; the container's definitions (a HashMap) are a function from the      *)
(* declared names to their Definitions.                                    *)
(***************************************************************************)
Array(length, elements) == [length |-> LE32(length), elements |-> elements, k |-> "Array"]

Sequence(elements) == [elements |-> elements, k |-> "Sequence"]

Tuple(elements) == [elements |-> elements, k |-> "Tuple"]

Enum(variants) == [k |-> "Enum", variants |-> variants]

NamedFields(named) == [k |-> "Struct", fields |-> [named |-> named, f |-> "NamedFields"]]

UnnamedFields(unnamed) ==
    [k |-> "Struct", fields |-> [f |-> "UnnamedFields", unnamed |-> unnamed]]

EmptyFields == [k |-> "Struct", fields |-> [f |-> "Empty"]]

\* the HashMap built by inserting the entries <<key, value>> in order:
\* a later entry with the same key replaces the earlier one
MapOf(entries) ==
    [key \in {entries[i][1] : i \in DOMAIN entries} |->
        LET last == CHOOSE i \in DOMAIN entries :
                        /\ entries[i][1] = key
                        /\ \A j \in DOMAIN entries : j > i => entries[j][1] # key
        IN  entries[last][2]]

SchemaContainer(declaration, entries) ==
    [declaration |-> declaration, definitions |-> MapOf(entries)]

\* String's Ord: bytewise lexicographic
RECURSIVE StrLess(_, _)
StrLess(a, b) ==
    IF b = <<>> THEN FALSE
    ELSE IF a = <<>> THEN TRUE
    ELSE IF a[1] # b[1] THEN a[1] < b[1]
    ELSE StrLess(Tail(a), Tail(b))

\* the keys of a HashMap in the order HashMap::serialize writes them (sorted)
RECURSIVE SortedKeys(_)
SortedKeys(keys) ==
    IF keys = {} THEN <<>>
    ELSE LET least == CHOOSE a \in keys : \A b \in keys : a = b \/ StrLess(a, b)
         IN  <<least>> \o SortedKeys(keys \ {least})

\* Vec::<String>::serialize
SerStrings(ss) == LE32(Len(ss)) \o Concat([i \in DOMAIN ss |-> SerBytes(ss[i])])

\* Vec::<(String, String)>::serialize
SerPairs(ps) ==
    LE32(Len(ps)) \o Concat([i \in DOMAIN ps |-> SerBytes(ps[i][1]) \o SerBytes(ps[i][2])])

\* Fields::serialize: the variant index, then the payload
SerFields(fields) ==
    IF fields.f = "NamedFields" THEN <<0>> \o SerPairs(fields.named)
    ELSE IF fields.f = "UnnamedFields" THEN <<1>> \o SerStrings(fields.unnamed)
    ELSE <<2>>

\* Definition::serialize: the variant index, then the payload
SerDefinition(d) ==
    IF d.k = "Array" THEN <<0>> \o d.length \o SerBytes(d.elements)
    ELSE IF d.k = "Sequence" THEN <<1>> \o SerBytes(d.elements)
    ELSE IF d.k = "Tuple" THEN <<2>> \o SerStrings(d.elements)
    ELSE IF d.k = "Enum" THEN <<3>> \o SerPairs(d.variants)
    ELSE <<4>> \o SerFields(d.fields)

\* the serialized entries <<key, Definition>> in the order given
SerEntries(entries) ==
    LE32(Len(entries))
        \o Concat([i \in DOMAIN entries |->
                      SerBytes(entries[i][1]) \o SerDefinition(entries[i][2])])

\* BorshSchemaContainer::serialize: the declaration, then the definitions
\* as HashMap::serialize writes them, sorted by key
SerSchema(schema) ==
    LET keys == SortedKeys(DOMAIN schema.definitions)
    IN  SerBytes(schema.declaration)
            \o SerEntries([i \in DOMAIN keys |-> <<keys[i], schema.definitions[keys[i]]>>])

\* n Strings in a row
RECURSIVE DeStringsN(_, _)
DeStringsN(buf, n) ==
    IF n = 0 THEN Got(<<>>, buf)
    ELSE Try(DeString(buf), LAMBDA r :
         Try(DeStringsN(r.rest, n - 1), LAMBDA rr :
         Got(<<r.v>> \o rr.v, rr.rest)))

\* Vec::<String>::deserialize
DeStrings(buf) == Try(ReadU32(buf), LAMBDA l : DeStringsN(l.rest, U32Nat(l.v)))

\* n (String, String) pairs in a row
RECURSIVE DePairsN(_, _)
DePairsN(buf, n) ==
    IF n = 0 THEN Got(<<>>, buf)
    ELSE Try(DeString(buf), LAMBDA a :
         Try(DeString(a.rest), LAMBDA b :
         Try(DePairsN(b.rest, n - 1), LAMBDA rr :
         Got(<<<<a.v, b.v>>>> \o rr.v, rr.rest))))

\* Vec::<(String, String)>::deserialize
DePairs(buf) == Try(ReadU32(buf), LAMBDA l : DePairsN(l.rest, U32Nat(l.v)))

\* Fields::deserialize: the variant index, then the payload
DeFields(buf) ==
    IF Len(buf) < 1 THEN Fail
    ELSE IF buf[1] = 0 THEN
        Try(DePairs(Drop(buf, 1)), LAMBDA r :
        Got([named |-> r.v, f |-> "NamedFields"], r.rest))
    ELSE IF buf[1] = 1 THEN
        Try(DeStrings(Drop(buf, 1)), LAMBDA r :
        Got([f |-> "UnnamedFields", unnamed |-> r.v], r.rest))
    ELSE IF buf[1] = 2 THEN Got([f |-> "Empty"], Drop(buf, 1))
    ELSE Fail

\* Definition::deserialize: the variant index, then the payload
DeDefinition(buf) ==
    IF Len(buf) < 1 THEN Fail
    ELSE IF buf[1] = 0 THEN
        Try(ReadU32(Drop(buf, 1)), LAMBDA l :
        Try(DeString(l.rest), LAMBDA e :
        Got([length |-> l.v, elements |-> e.v, k |-> "Array"], e.rest)))
    ELSE IF buf[1] = 1 THEN
        Try(DeString(Drop(buf, 1)), LAMBDA e : Got(Sequence(e.v), e.rest))
    ELSE IF buf[1] = 2 THEN
        Try(DeStrings(Drop(buf, 1)), LAMBDA e : Got(Tuple(e.v), e.rest))
    ELSE IF buf[1] = 3 THEN
        Try(DePairs(Drop(buf, 1)), LAMBDA e : Got(Enum(e.v), e.rest))
    ELSE IF buf[1] = 4 THEN
        Try(DeFields(Drop(buf, 1)), LAMBDA e : Got([k |-> "Struct", fields |-> e.v], e.rest))
    ELSE Fail

\* n (String, Definition) entries in a row
RECURSIVE DeEntriesN(_, _)
DeEntriesN(buf, n) ==
    IF n = 0 THEN Got(<<>>, buf)
    ELSE Try(DeString(buf), LAMBDA a :
         Try(DeDefinition(a.rest), LAMBDA b :
         Try(DeEntriesN(b.rest, n - 1), LAMBDA rr :
         Got(<<<<a.v, b.v>>>> \o rr.v, rr.rest))))

\* BorshSchemaContainer::deserialize: the declaration, then the entries
\* collected into a HashMap
DeSchema(buf) ==
    Try(DeString(buf), LAMBDA d :
    Try(ReadU32(d.rest), LAMBDA l :
    Try(DeEntriesN(l.rest, U32Nat(l.v)), LAMBDA e :
    Got(SchemaContainer(d.v, e.v), e.rest))))

\* Vec::<u8>::schema_container()
VecU8Schema == SchemaContainer(s_VecU8, <<<<s_VecU8, Sequence(s_u8)>>>>)

(***************************************************************************)
(* serde_json::Value.  A Number is serde_json's N: PosInt(u64),            *)
(* NegInt(i64) (always negative) or Float(f64), held as the 8              *)
(* little-endian bytes of the machine value.  An Object is a Map that      *)
(* keeps its keys in insertion order (the preserve_order feature, which    *)
(* tests::ensure_key_order_is_preserved relies on): a sequence of          *)
(* <<key, value>> with distinct keys.                                      *)
(***************************************************************************)
JNull == [t |-> "null"]

JBool(b) == [t |-> "bool", b |-> b]

JPos(bits) == [n |-> "PosInt", t |-> "num", bits |-> bits]

JNeg(bits) == [n |-> "NegInt", t |-> "num", bits |-> bits]

JFloat(bits) == [n |-> "Float", t |-> "num", bits |-> bits]

JStr(s) == [s |-> s, t |-> "str"]

JArr(a) == [t |-> "arr", a |-> a]

JObj(o) == [o |-> o, t |-> "obj"]

\* Map::keys(): the keys in iteration order
Keys(o) == [i \in DOMAIN o |-> o[i][1]]

\* Map::get
HasKey(o, key) == \E i \in DOMAIN o : o[i][1] = key

Get(o, key) == o[CHOOSE i \in DOMAIN o : o[i][1] = key][2]

\* Value's PartialEq: numbers by variant and value, arrays by position,
\* objects as maps (the order of the keys does not count)
RECURSIVE JsonEq(_, _)
JsonEq(x, y) ==
    IF x.t # y.t THEN FALSE
    ELSE IF x.t = "arr" THEN
        /\ Len(x.a) = Len(y.a)
        /\ \A i \in DOMAIN x.a : JsonEq(x.a[i], y.a[i])
    ELSE IF x.t = "obj" THEN
        /\ Len(x.o) = Len(y.o)
        /\ \A i \in DOMAIN x.o :
              /\ HasKey(y.o, x.o[i][1])
              /\ JsonEq(x.o[i][2], Get(y.o, x.o[i][1]))
    ELSE x = y

\* the bytes of a small natural in w little-endian bytes
RECURSIVE LE(_, _)
LE(n, w) == IF w = 0 THEN <<>> ELSE <<n % 256>> \o LE(n \div 256, w - 1)

\* zero-extension and sign-extension of a little-endian integer to w bytes
ZeroExt(b, w) == b \o [i \in 1..(w - Len(b)) |-> 0]

SignExt(b, w) == b \o [i \in 1..(w - Len(b)) |-> IF b[Len(b)] >= 128 THEN 255 ELSE 0]

IsNegative(b) == b[Len(b)] >= 128

\* Value::from of an unsigned integer: N::PosInt(n as u64)
FromUnsigned(b) == JPos(ZeroExt(b, 8))

\* Value::from of a signed integer: N::NegInt(n as i64) below zero, else N::PosInt
FromSigned(b) == IF IsNegative(b) THEN JNeg(SignExt(b, 8)) ELSE JPos(ZeroExt(b, 8))

\* Value::as_u64: Some only for N::PosInt
as_u64(v) == IF v.t = "num" /\ v.n = "PosInt" THEN Got(v.bits, <<>>) ELSE Fail

\* Value::as_i64: N::PosInt up to i64::MAX, and N::NegInt
as_i64(v) ==
    IF v.t = "num" /\ v.n = "PosInt" /\ ~IsNegative(v.bits) THEN Got(v.bits, <<>>)
    ELSE IF v.t = "num" /\ v.n = "NegInt" THEN Got(v.bits, <<>>)
    ELSE Fail

\* `n as u8/u16/u32` of a u64: the low w bytes, whatever the value
WrapU64(bits, w) == Got(Take(bits, w), <<>>)

\* u8/u16/u32::try_from(u64): succeeds when the value fits w bytes
TryFromU64(bits, w) ==
    IF \A i \in (w + 1)..8 : bits[i] = 0 THEN Got(Take(bits, w), <<>>) ELSE Fail

\* i8/i16/i32::try_from(i64): succeeds when the value is the sign-extension
\* of its low w bytes
TryFromI64(bits, w) ==
    IF SignExt(Take(bits, w), 8) = bits THEN Got(Take(bits, w), <<>>) ELSE Fail

\* two's complement negation of a little-endian integer
RECURSIVE NegateFrom(_, _)
NegateFrom(b, carry) ==
    IF b = <<>> THEN <<>>
    ELSE LET s == (255 - b[1]) + carry
         IN  <<s % 256>> \o NegateFrom(Tail(b), s \div 256)

Negate(b) == NegateFrom(b, 1)

\* the 64 bits of eight little-endian bytes, least significant first
BitsOf(b) == [i \in 1..64 |-> (b[((i - 1) \div 8) + 1] \div (2 ^ ((i - 1) % 8))) % 2]

\* the eight little-endian bytes of 64 bits
BytesOf(x) ==
    [j \in 1..8 |->
        x[8 * j - 7] + 2 * x[8 * j - 6] + 4 * x[8 * j - 5] + 8 * x[8 * j - 4]
        + 16 * x[8 * j - 3] + 32 * x[8 * j - 2] + 64 * x[8 * j - 1] + 128 * x[8 * j]]

\* position (from 1) of the highest set bit of a non-zero integer
TopBit(x) == CHOOSE p \in 1..64 : x[p] = 1 /\ \A q \in (p + 1)..64 : x[q] = 0

\* a 53-bit significand plus one; the carry out of bit 53 is dropped (the
\* result is then the zero significand of the next power of two)
Increment(m) ==
    IF \A j \in 1..53 : m[j] = 1 THEN [j \in 1..53 |-> 0]
    ELSE LET k == CHOOSE k \in 1..53 : m[k] = 0 /\ \A j \in 1..(k - 1) : m[j] = 1
         IN  [j \in 1..53 |-> IF j < k THEN 0 ELSE IF j = k THEN 1 ELSE m[j]]

\* the 53 bits kept of an integer whose highest set bit is 52 + shift
Significand(x, shift) == [j \in 1..53 |-> IF j + shift >= 1 THEN x[j + shift] ELSE 0]

\* round to nearest, ties to even: the first dropped bit is set, and either a
\* lower one is set too or the last kept bit is odd
RoundsUp(x, shift) ==
    /\ shift >= 1
    /\ x[shift] = 1
    /\ (x[shift + 1] = 1 \/ \E i \in 1..(shift - 1) : x[i] = 1)

\* the bytes f64::to_le_bytes gives: 52 fraction bits, 11 exponent bits, sign
F64Bytes(r, ex, sign) ==
    BytesOf([i \in 1..64 |->
        IF i <= 52 THEN r[i]
        ELSE IF i <= 63 THEN (ex \div (2 ^ (i - 53))) % 2
        ELSE sign])

F64Rounded(m, e, up, sign) ==
    IF ~up THEN F64Bytes(m, 1023 + e, sign)
    ELSE IF \A j \in 1..53 : m[j] = 1 THEN F64Bytes(Increment(m), 1024 + e, sign)
    ELSE F64Bytes(Increment(m), 1023 + e, sign)

F64OfBits(x, e, sign) ==
    F64Rounded(Significand(x, e - 52), e, RoundsUp(x, e - 52), sign)

\* `n as f64` of a u64 magnitude with a sign bit: IEEE 754 binary64, round to
\* nearest, ties to even
IntBitsAsF64(x, sign) ==
    IF \A i \in 1..64 : x[i] = 0 THEN <<0, 0, 0, 0, 0, 0, 0, 128 * sign>>
    ELSE F64OfBits(x, TopBit(x) - 1, sign)

IntAsF64(magnitude, sign) == IntBitsAsF64(BitsOf(magnitude), sign)

\* Value::as_f64, had it been Some only for N::Float
as_f64OfFloat(v) ==
    IF v.t = "num" /\ v.n = "Float" THEN Got(v.bits, <<>>) ELSE Fail

\* Value::as_f64: Some for every number; N::PosInt(n) and N::NegInt(n) give
\* `n as f64`, N::Float(n) gives n
as_f64(v) ==
    IF v.t # "num" THEN Fail
    ELSE IF v.n = "PosInt" THEN Got(IntAsF64(v.bits, 0), <<>>)
    ELSE IF v.n = "NegInt" THEN Got(IntAsF64(Negate(v.bits), 1), <<>>)
    ELSE Got(v.bits, <<>>)

\* b * 10 + d over little-endian bytes: [v, carry]
RECURSIVE MulAdd10(_, _)
MulAdd10(b, d) ==
    IF b = <<>> THEN [v |-> <<>>, carry |-> d]
    ELSE LET s    == b[1] * 10 + d
             more == MulAdd10(Tail(b), s \div 256)
         IN  [v |-> <<s % 256>> \o more.v, carry |-> more.carry]

\* b divided by 10, from the most significant byte down: [q, r]
RECURSIVE DivMod10(_)
DivMod10(b) ==
    IF b = <<>> THEN [r |-> 0, q |-> <<>>]
    ELSE LET high == DivMod10(Drop(b, 1))
             s    == high.r * 256 + b[1]
         IN  [r |-> s % 10, q |-> <<s \div 10>> \o high.q]

IsZero(b) == \A i \in DOMAIN b : b[i] = 0

\* the decimal digits (ASCII) of an unsigned little-endian integer
RECURSIVE Digits(_)
Digits(b) ==
    IF IsZero(b) THEN <<>>
    ELSE LET dm == DivMod10(b) IN Append(Digits(dm.q), 48 + dm.r)

\* u128::to_string
UToString(b) == IF IsZero(b) THEN <<48>> ELSE Digits(b)

\* i128::to_string
IToString(b) == IF IsNegative(b) THEN <<45>> \o Digits(Negate(b)) ELSE UToString(b)

\* the magnitude of a run of decimal digits in w bytes; fails on a byte that
\* is no digit and on overflow of the w bytes
RECURSIVE ParseDigits(_, _)
ParseDigits(s, acc) ==
    IF s = <<>> THEN Got(acc, <<>>)
    ELSE IF s[1] < 48 \/ s[1] > 57 THEN Fail
    ELSE LET m == MulAdd10(acc, s[1] - 48)
         IN  IF m.carry # 0 THEN Fail ELSE ParseDigits(Tail(s), m.v)

\* str::parse::<u128>: an optional '+', then at least one digit
ParseU128(s) ==
    IF s = <<>> THEN Fail
    ELSE IF s[1] \in {43, 45} /\ Len(s) = 1 THEN Fail
    ELSE IF s[1] = 43 THEN ParseDigits(Tail(s), Zeros(16))
    ELSE ParseDigits(s, Zeros(16))

\* i128::MIN, which is also the bit pattern of its magnitude 2^127
MinI128 == Zeros(15) \o <<128>>

\* str::parse::<i128>: an optional '+' or '-', then at least one digit
ParseI128(s) ==
    IF s = <<>> THEN Fail
    ELSE IF s[1] \in {43, 45} /\ Len(s) = 1 THEN Fail
    ELSE IF s[1] = 45 THEN
        LET m == ParseDigits(Tail(s), Zeros(16))
        IN  IF ~m.ok THEN Fail
            ELSE IF IsNegative(m.v) /\ m.v # MinI128 THEN Fail
            ELSE Got(Negate(m.v), <<>>)
    ELSE LET m == ParseDigits(IF s[1] = 43 THEN Tail(s) ELSE s, Zeros(16))
         IN  IF m.ok /\ ~IsNegative(m.v) THEN m ELSE Fail

(***************************************************************************)
(* dynamic_schema.rs: the schema-driven decoder.                           *)
(* A walk returns [ok, panic, v, rest] on success and [ok, panic, err] on  *)
(* an Err(..) (panic = FALSE) or on a panic of the process (panic = TRUE). *)
(***************************************************************************)
DOk(v, rest) == [ok |-> TRUE, v |-> v, rest |-> rest, panic |-> FALSE]

DErr(err) == [ok |-> FALSE, panic |-> FALSE, err |-> err]

DPanic(err) == [ok |-> FALSE, panic |-> TRUE, err |-> err]

\* a read of the borsh crate mapped to the walker's InvalidData error `name`
OrErr(r, name, F(_)) == IF r.ok THEN F(r) ELSE DErr(name)

\* the ? operator on a walk: its error or panic returns at once
DThen(r, F(_)) == IF r.ok THEN F(r) ELSE r

\* an unsigned primitive of w bytes: x.into(), or InvalidData naming the type
DeUnsigned(buf, w, name) ==
    OrErr(ReadBytes(buf, w), name, LAMBDA r : DOk(FromUnsigned(r.v), r.rest))

\* a signed primitive of w bytes, had it been read as the unsigned one
DeSignedAsUnsigned(buf, w, name) ==
    OrErr(ReadBytes(buf, w), name, LAMBDA r : DOk(FromUnsigned(r.v), r.rest))

\* a signed primitive of w bytes
DeSigned(buf, w, name) ==
    OrErr(ReadBytes(buf, w), name, LAMBDA r : DOk(FromSigned(r.v), r.rest))

\* the keys of the fields, each once, in the order of their first insertion
RECURSIVE DistinctKeys(_)
DistinctKeys(named) ==
    IF named = <<>> THEN <<>>
    ELSE LET before == DistinctKeys(Take(named, Len(named) - 1))
             key    == named[Len(named)][1]
         IN  IF key \in Range(before) THEN before ELSE Append(before, key)

\* the h-th permutation of a sequence
RECURSIVE Permuted(_, _)
Permuted(s, h) ==
    IF s = <<>> THEN <<>>
    ELSE LET i == (h % Len(s)) + 1
         IN  <<s[i]>> \o Permuted(Take(s, i - 1) \o Drop(s, i), h \div Len(s))

\* serde_json::to_value of the HashMap<String, Value> filled with the decoded
\* fields: a later insert under the same key replaces the value, and the
\* keys come out in the HashMap's iteration order, which its RandomState
\* decides; h stands for that state
HashMapToValue(named, values, h) ==
    LET keys == Permuted(DistinctKeys(named), h)
        last(key) == CHOOSE i \in DOMAIN named :
                        /\ named[i][1] = key
                        /\ \A j \in DOMAIN named : j > i => named[j][1] # key
    IN  JObj([i \in DOMAIN keys |-> <<keys[i], values[last(keys[i])]>>])

\* a length of 2^24 and more, in its 4 little-endian bytes
Huge(length) == length[4] # 0

\* Vec::<serde_json::Value>::with_capacity(length as usize) asks for room for
\* `length` values before one of them is read.  The length is taken from the
\* input or the schema as it stands; where the allocator refuses a request
\* of that size the process is aborted.  `grants` tells whether it grants a
\* huge one
Refused(length, grants) == Huge(length) /\ ~grants

RECURSIVE deserialize_declaration_from_schema(_, _, _, _, _)
RECURSIVE DeElements(_, _, _, _, _)

\* the loops `for element in elements { ...? ; v.push(e) }`: the elements
\* decoded one after the other, stopping at the first failure
DeElements(buf, schema, declarations, h, grants) ==
    IF declarations = <<>> THEN DOk(<<>>, buf)
    ELSE DThen(deserialize_declaration_from_schema(buf, schema, Head(declarations), h,
                                                   grants),
               LAMBDA e :
         DThen(DeElements(e.rest, schema, Tail(declarations), h, grants), LAMBDA more :
         DOk(<<e.v>> \o more.v, more.rest)))

\* the decoded elements, had one element alone been returned as itself
ToArrayUnlessOne(r) == DOk(IF Len(r.v) = 1 THEN r.v[1] ELSE JArr(r.v), r.rest)

\* the decoded elements as a JSON array
ToArray(r) == DOk(JArr(r.v), r.rest)

deserialize_declaration_from_schema(buf, schema, declaration, h, grants) ==
    IF declaration = s_u8 THEN DeUnsigned(buf, 1, "u8")
    ELSE IF declaration = s_u16 THEN DeUnsigned(buf, 2, "u16")
    ELSE IF declaration = s_u32 THEN DeUnsigned(buf, 4, "u32")
    ELSE IF declaration = s_u64 THEN DeUnsigned(buf, 8, "u64")
    ELSE IF declaration = s_u128 THEN
        OrErr(ReadBytes(buf, 16), "u128", LAMBDA r : DOk(JStr(UToString(r.v)), r.rest))
    ELSE IF declaration = s_i8 THEN DeSigned(buf, 1, "i8")
    ELSE IF declaration = s_i16 THEN DeSigned(buf, 2, "i16")
    ELSE IF declaration = s_i32 THEN DeSigned(buf, 4, "i32")
    ELSE IF declaration = s_i64 THEN DeSigned(buf, 8, "i64")
    ELSE IF declaration = s_i128 THEN
        OrErr(ReadBytes(buf, 16), "i128", LAMBDA r : DOk(JStr(IToString(r.v)), r.rest))
    ELSE IF declaration = s_string THEN
        OrErr(DeString(buf), "string", LAMBDA r : DOk(JStr(r.v), r.rest))
    ELSE IF declaration = s_bool THEN
        OrErr(DeBool(buf), "bool", LAMBDA r : DOk(JBool(r.v), r.rest))
    ELSE IF declaration \in DOMAIN schema.definitions THEN
        LET d == schema.definitions[declaration]
        IN  IF d.k = "Array" THEN
                IF Refused(d.length, grants) THEN DPanic("memory allocation failed")
                ELSE DThen(DeElements(buf, schema,
                                      [i \in 1..U32Nat(d.length) |-> d.elements], h, grants),
                           ToArray)
            ELSE IF d.k = "Sequence" THEN
                OrErr(ReadU32(buf), "borsh", LAMBDA l :
                IF Refused(l.v, grants) THEN DPanic("memory allocation failed")
                ELSE DThen(DeElements(l.rest, schema,
                                      [i \in 1..U32Nat(l.v) |-> d.elements], h, grants),
                           ToArray))
            ELSE IF d.k = "Tuple" THEN
                DThen(DeElements(buf, schema, d.elements, h, grants), ToArray)
            ELSE IF d.k = "Enum" THEN
                OrErr(ReadBytes(buf, 1), "borsh", LAMBDA i :
                IF i.v[1] + 1 > Len(d.variants) THEN DPanic("index out of bounds")
                ELSE DThen(deserialize_declaration_from_schema(
                               i.rest, schema, d.variants[i.v[1] + 1][2], h, grants),
                           LAMBDA r :
                     DOk(JObj(<<<<d.variants[i.v[1] + 1][1], r.v>>>>), r.rest)))
            ELSE IF d.fields.f = "NamedFields" THEN
                DThen(DeElements(buf, schema,
                                 [i \in DOMAIN d.fields.named |-> d.fields.named[i][2]], h,
                                 grants),
                      LAMBDA r : DOk(HashMapToValue(d.fields.named, r.v, h), r.rest))
            ELSE IF d.fields.f = "UnnamedFields" THEN
                DThen(DeElements(buf, schema, d.fields.unnamed, h, grants), ToArray)
            ELSE DOk(JArr(<<>>), buf)
    ELSE DPanic("not yet implemented: Unknown type to deserialize")

deserialize_from_schema(buf, schema, h, grants) ==
    deserialize_declaration_from_schema(buf, schema, schema.declaration, h, grants)

(***************************************************************************)
(* dynamic_schema.rs: the schema-driven encoder.  A walk returns           *)
(* [ok, panic, err, detail, out]: out holds the bytes the writer received, *)
(* which stay written when the walk ends in an error.                      *)
(***************************************************************************)
EOk(out) == [ok |-> TRUE, panic |-> FALSE, err |-> "", out |-> out, detail |-> <<>>]

EErr(err, detail, out) ==
    [ok |-> FALSE, panic |-> FALSE, err |-> err, out |-> out, detail |-> detail]

EPanic(err, out) == [ok |-> FALSE, panic |-> TRUE, err |-> err, out |-> out, detail |-> <<>>]

\* .ok_or(..)? and .map(..)?? on what the value gave: the expectation error
\* `err` returns at once
Expect(r, err, F(_)) == IF r.ok THEN F(r) ELSE EErr(err, <<>>, <<>>)

\* the ? operator on a walk: its error or panic returns at once
EThen(e, F(_)) == IF e.ok THEN F(e) ELSE e

\* a value bound to a name
Let(x, F(_)) == F(x)

\* value.as_u64().ok_or(Number).map(uN::try_from)??, then the w bytes
SerUnsigned(value, w) ==
    Expect(as_u64(value), "Expected number", LAMBDA n :
    Expect(TryFromU64(n.v, w), "TryFromIntError", LAMBDA x : EOk(x.v)))

\* value.as_i64().ok_or(Number).map(iN::try_from)??, then the w bytes
SerSigned(value, w) ==
    Expect(as_i64(value), "Expected number", LAMBDA n :
    Expect(TryFromI64(n.v, w), "TryFromIntError", LAMBDA x : EOk(x.v)))

\* the "i64" arm: value.as_u64().ok_or(Number)?, written as a u64
SerI64(value) == Expect(as_u64(value), "Expected number", LAMBDA n : EOk(n.v))

\* the 128-bit arms, had "i128" parsed its string as a u128
Ser128AsUnsigned(value, signed) ==
    IF value.t # "str" THEN EErr("Expected string", <<>>, <<>>)
    ELSE Expect(ParseU128(value.s), "ParseIntError", LAMBDA n : EOk(n.v))

\* value.as_str().ok_or(String).map(|x| x.parse())??, then the 16 bytes
Ser128(value, signed) ==
    IF value.t # "str" THEN EErr("Expected string", <<>>, <<>>)
    ELSE Expect(IF signed THEN ParseI128(value.s) ELSE ParseU128(value.s),
                "ParseIntError", LAMBDA n : EOk(n.v))

\* the first key of an object with its value, or a bare string with None
EnumInput(value) ==
    IF value.t = "obj" /\ value.o # <<>>
        THEN [ok |-> TRUE, name |-> value.o[1][1], payload |-> value.o[1][2]]
    ELSE IF value.t = "str"
        THEN [ok |-> TRUE, name |-> value.s, payload |-> JObj(<<>>)]
    ELSE [ok |-> FALSE]

\* the first variant of that name, had the index counted from one
FindVariantFromOne(variants, name) ==
    IF \E i \in DOMAIN variants : variants[i][1] = name
        THEN LET i == CHOOSE i \in DOMAIN variants :
                          /\ variants[i][1] = name
                          /\ \A j \in DOMAIN variants : j < i => variants[j][1] # name
             IN  [ok |-> TRUE, declaration |-> variants[i][2], index |-> i]
    ELSE [ok |-> FALSE]

\* variants.iter().enumerate().find_map(..): the first variant of that name
FindVariant(variants, name) ==
    IF \E i \in DOMAIN variants : variants[i][1] = name
        THEN LET i == CHOOSE i \in DOMAIN variants :
                          /\ variants[i][1] = name
                          /\ \A j \in DOMAIN variants : j < i => variants[j][1] # name
             IN  [ok |-> TRUE, declaration |-> variants[i][2], index |-> i - 1]
    ELSE [ok |-> FALSE]

\* after the bytes `written`, the outcome of what follows
After(written, e) == [e EXCEPT !.out = written \o e.out]

\* the check of a length, had it reported the length of the array it was
\* given
ExpectArrayOfItsLength(value, length) ==
    IF value.t # "arr" THEN EErr("Expected array", <<>>, <<>>)
    ELSE IF LE32(Len(value.a)) # length
        THEN EErr("Expected array of length", LE32(Len(value.a)), <<>>)
    ELSE EOk(<<>>)

\* value.as_array().ok_or(Array)?, then the check of its length against the
\* declared one (a u32): ArrayOfLength(length) when they differ
ExpectArrayOfLength(value, length) ==
    IF value.t # "arr" THEN EErr("Expected array", <<>>, <<>>)
    ELSE IF LE32(Len(value.a)) # length
        THEN EErr("Expected array of length", length, <<>>)
    ELSE EOk(<<>>)

RECURSIVE serialize_declaration_with_schema(_, _, _)
RECURSIVE SerElements(_, _, _)

\* the loops `for .. { serialize_declaration_with_schema(..)?; }`: the
\* values written one after the other, stopping at the first failure
SerElements(values, schema, declarations) ==
    IF values = <<>> THEN EOk(<<>>)
    ELSE EThen(serialize_declaration_with_schema(Head(values), schema, Head(declarations)),
               LAMBDA e :
         After(e.out, SerElements(Tail(values), schema, Tail(declarations))))

\* the fields of a struct with named fields, looked up in the object by key
\* in the declared order
RECURSIVE SerNamed(_, _, _)
SerNamed(object, schema, named) ==
    IF named = <<>> THEN EOk(<<>>)
    ELSE IF ~HasKey(object, named[1][1])
        THEN EErr("Expected property", named[1][1], <<>>)
    ELSE EThen(serialize_declaration_with_schema(
                   Get(object, named[1][1]), schema, named[1][2]),
               LAMBDA e :
         After(e.out, SerNamed(object, schema, Tail(named))))

\* the arm Fields::NamedFields, had it written the members of the object in
\* the order the object holds them
SerNamedFieldsInObjectOrder(value, schema, named) ==
    IF value.t # "obj" THEN EErr("Expected object", <<>>, <<>>)
    ELSE IF Len(value.o) # Len(named) THEN EErr("Expected property", <<>>, <<>>)
    ELSE SerElements([i \in DOMAIN value.o |-> value.o[i][2]], schema,
                     [i \in DOMAIN named |-> named[i][2]])

\* the arm Fields::NamedFields: value.as_object().ok_or(Object)?, then the
\* declared fields
SerNamedFields(value, schema, named) ==
    IF value.t # "obj" THEN EErr("Expected object", <<>>, <<>>)
    ELSE SerNamed(value.o, schema, named)

serialize_declaration_with_schema(value, schema, declaration) ==
    IF declaration = s_u8 THEN SerUnsigned(value, 1)
    ELSE IF declaration = s_u16 THEN SerUnsigned(value, 2)
    ELSE IF declaration = s_u32 THEN SerUnsigned(value, 4)
    ELSE IF declaration = s_u64 THEN SerUnsigned(value, 8)
    ELSE IF declaration = s_u128 THEN Ser128(value, FALSE)
    ELSE IF declaration = s_i8 THEN SerSigned(value, 1)
    ELSE IF declaration = s_i16 THEN SerSigned(value, 2)
    ELSE IF declaration = s_i32 THEN SerSigned(value, 4)
    ELSE IF declaration = s_i64 THEN SerI64(value)
    ELSE IF declaration = s_i128 THEN Ser128(value, TRUE)
    ELSE IF declaration = s_string THEN
        IF value.t = "str" THEN EOk(SerBytes(value.s))
        ELSE EErr("Expected string", <<>>, <<>>)
    ELSE IF declaration = s_bool THEN
        IF value.t = "bool" THEN EOk(<<IF value.b THEN 1 ELSE 0>>)
        ELSE EErr("Expected boolean", <<>>, <<>>)
    ELSE IF declaration \in DOMAIN schema.definitions THEN
        LET d == schema.definitions[declaration]
        IN  IF d.k = "Array" THEN
                EThen(ExpectArrayOfLength(value, d.length), LAMBDA array :
                SerElements(value.a, schema, [i \in DOMAIN value.a |-> d.elements]))
            ELSE IF d.k = "Sequence" THEN
                IF value.t # "arr" THEN EErr("Expected array", <<>>, <<>>)
                ELSE After(LE32(Len(value.a)),
                           SerElements(value.a, schema,
                                       [i \in DOMAIN value.a |-> d.elements]))
            ELSE IF d.k = "Tuple" THEN
                EThen(ExpectArrayOfLength(value, LE32(Len(d.elements))), LAMBDA tuple :
                SerElements(value.a, schema, d.elements))
            ELSE IF d.k = "Enum" THEN
                Expect(EnumInput(value), "Expected object", LAMBDA in :
                Let(FindVariant(d.variants, in.name), LAMBDA variant :
                IF ~variant.ok
                    THEN EErr("Specified variant does not exist in schema", in.name, <<>>)
                ELSE After(<<variant.index % 256>>,
                           serialize_declaration_with_schema(
                               in.payload, schema, variant.declaration))))
            ELSE IF d.fields.f = "NamedFields" THEN
                SerNamedFields(value, schema, d.fields.named)
            ELSE IF d.fields.f = "UnnamedFields" THEN
                IF Len(d.fields.unnamed) = 1
                    THEN serialize_declaration_with_schema(value, schema, d.fields.unnamed[1])
                ELSE EThen(ExpectArrayOfLength(value, LE32(Len(d.fields.unnamed))),
                           LAMBDA array :
                     SerElements(value.a, schema, d.fields.unnamed))
            ELSE EOk(<<>>)
    ELSE EPanic("not yet implemented: Unknown declaration to serialize", <<>>)

serialize_with_schema(value, schema) ==
    serialize_declaration_with_schema(value, schema, schema.declaration)

(***************************************************************************)
(* json_borsh.rs: the encoding of a JSON value that has no schema.         *)
(***************************************************************************)
\* the arm of serde_json::Value::Number, had it asked as_u64 and as_i64
\* before as_f64
SerNumberIntegerFirst(n) ==
    IF as_u64(n).ok THEN as_u64(n).v
    ELSE IF as_i64(n).ok THEN as_i64(n).v
    ELSE as_f64(n).v

\* the arm of serde_json::Value::Number: the first branch that answers Some
SerNumber(n) ==
    IF as_f64(n).ok THEN as_f64(n).v
    ELSE IF as_u64(n).ok THEN as_u64(n).v
    ELSE as_i64(n).v

\* Vec::<T>::serialize of elements already serialized: the u32 count, then
\* the elements
SerVec(items) == LE32(Len(items)) \o Concat(items)

\* the arm of serde_json::Value::Object, had it written a Vec of the values
SerValuesCounted(items) == LE32(Len(items)) \o Concat(items)

\* the arm of serde_json::Value::Object: try_fold over o.iter() writes one
\* value after the other
SerValues(items) == Concat(items)

\* <JsonSerializableAsBorsh as BorshSerialize>::serialize
RECURSIVE JsonSerializableAsBorsh(_)
JsonSerializableAsBorsh(value) ==
    IF value.t = "null" THEN <<0>>
    ELSE IF value.t = "bool" THEN (IF value.b THEN <<1>> ELSE <<0>>)
    ELSE IF value.t = "num" THEN SerNumber(value)
    ELSE IF value.t = "str" THEN SerBytes(value.s)
    ELSE IF value.t = "arr" THEN
        SerVec([i \in DOMAIN value.a |-> JsonSerializableAsBorsh(value.a[i])])
    ELSE SerValues([i \in DOMAIN value.o |-> JsonSerializableAsBorsh(value.o[i][2])])

(***************************************************************************)
(* compress_schema.rs.  compress_schema returns a BorshSchemaContainer, or *)
(* the process ends in it: [declaration, definitions, st] with st "Ok",    *)
(* "Panic" (an unwrap of None) or "StackOverflow" (a recursion without     *)
(* end).                                                                   *)
(***************************************************************************)
\* a counter that stands still on a value that is no scalar
SameCode(code) == code

\* the last value char::from_u32 accepts: U+10FFFF
MaxScalar == 1114111

\* the counter is past the last scalar value: char::from_u32 is None for
\* every value from here to u32::MAX, and `*next_name_code += 1` then leaves
\* the range of u32
Exhausted(next_name_code) == next_name_code > MaxScalar

\* the first value from `code` on that char::from_u32 accepts.  It is None
\* for the surrogates D800..DFFF: the loop of next_name counts past them.
\* From an exhausted counter the loop counts up to u32::MAX; where the
\* addition wraps (a build without overflow checks) it goes on from 0
NextScalar(code) ==
    IF code >= 55296 /\ code <= 57343 THEN 57344
    ELSE IF Exhausted(code) THEN 0
    ELSE code

\* char::to_string: the UTF-8 bytes of a scalar value
Utf8(c) ==
    IF c < 128 THEN <<c>>
    ELSE IF c < 2048 THEN <<192 + (c \div 64), 128 + (c % 64)>>
    ELSE IF c < 65536
        THEN <<224 + (c \div 4096), 128 + ((c \div 64) % 64), 128 + (c % 64)>>
    ELSE <<240 + (c \div 262144), 128 + ((c \div 4096) % 64), 128 + ((c \div 64) % 64),
           128 + (c % 64)>>

\* next_name: the name of the next scalar value, and the counter after it
next_name(next_name_code) ==
    [name |-> Utf8(NextScalar(next_name_code)), code |-> NextScalar(next_name_code) + 1]

\* InnerTypes::get_inner_definitions: the declarations a Definition refers to
get_inner_definitions(d) ==
    IF d.k \in {"Array", "Sequence"} THEN <<d.elements>>
    ELSE IF d.k = "Tuple" THEN d.elements
    ELSE IF d.k = "Enum" THEN [i \in DOMAIN d.variants |-> d.variants[i][2]]
    ELSE IF d.fields.f = "NamedFields"
        THEN [i \in DOMAIN d.fields.named |-> d.fields.named[i][2]]
    ELSE IF d.fields.f = "UnnamedFields" THEN d.fields.unnamed
    ELSE <<>>

\* the declarations the first loop of compress_schema skips
SkippedNames ==
    {s_u8, s_u16, s_u32, s_u64, s_u128, s_i8, s_i16, s_i32, s_i64, s_i128, s_string, s_bool}

\* the first loop of compress_schema: `while let Some(old_name) = stack.pop()`
\* gives every declaration it reaches a new name; the loop pushes the inner
\* declarations of a Definition in the order get_inner_definitions lists them
RECURSIVE RenameLoop(_, _, _, _)
RenameLoop(stack, old_to_new_map, next_name_code, schema) ==
    IF stack = <<>> THEN old_to_new_map
    ELSE LET old_name == stack[Len(stack)]
             popped   == Take(stack, Len(stack) - 1)
         IN  IF old_name \in SkippedNames
                 THEN RenameLoop(popped, old_to_new_map, next_name_code, schema)
             ELSE IF old_name \in DOMAIN old_to_new_map
                 THEN RenameLoop(popped, old_to_new_map, next_name_code, schema)
             ELSE Let(next_name(next_name_code), LAMBDA new :
                  RenameLoop(
                      IF old_name \in DOMAIN schema.definitions
                          THEN popped \o get_inner_definitions(schema.definitions[old_name])
                          ELSE popped,
                      (old_name :> new.name) @@ old_to_new_map, new.code, schema))

\* the closure `get` of add_definitions_rec: the new name, or the name itself
NewNameOf(old_to_new_map, n) == IF n \in DOMAIN old_to_new_map THEN old_to_new_map[n] ELSE n

\* a Definition inserted as it stands, its declarations not replaced
KeptDefinition(d, old_to_new_map) == d

\* the Definition add_definitions_rec inserts: the old one with every
\* declaration it refers to replaced by get(..)
RenamedDefinition(d, old_to_new_map) ==
    IF d.k = "Array"
        THEN [length |-> d.length, elements |-> NewNameOf(old_to_new_map, d.elements),
              k |-> "Array"]
    ELSE IF d.k = "Sequence" THEN Sequence(NewNameOf(old_to_new_map, d.elements))
    ELSE IF d.k = "Tuple"
        THEN Tuple([i \in DOMAIN d.elements |-> NewNameOf(old_to_new_map, d.elements[i])])
    ELSE IF d.k = "Enum"
        THEN Enum([i \in DOMAIN d.variants |->
                      <<d.variants[i][1], NewNameOf(old_to_new_map, d.variants[i][2])>>])
    ELSE IF d.fields.f = "NamedFields"
        THEN NamedFields([i \in DOMAIN d.fields.named |->
                             <<d.fields.named[i][1],
                               NewNameOf(old_to_new_map, d.fields.named[i][2])>>])
    ELSE IF d.fields.f = "UnnamedFields"
        THEN UnnamedFields([i \in DOMAIN d.fields.unnamed |->
                               NewNameOf(old_to_new_map, d.fields.unnamed[i])])
    ELSE EmptyFields

\* what add_definitions_rec leaves: the new definitions, or a recursion that
\* does not end
Added(new_definitions) == [definitions |-> new_definitions, overflow |-> FALSE]

Overflow == [definitions |-> <<>>, overflow |-> TRUE]

\* add_definitions_rec.  The function keeps no set of the declarations it has
\* visited: a call for a declaration that a call further up the chain is
\* still working on repeats that chain of calls without end, until the stack
\* overflows.  `calls` holds the declarations of the calls in progress.
RECURSIVE add_definitions_rec(_, _, _, _, _)
RECURSIVE AddInner(_, _, _, _, _)

\* `for i in old_definition.get_inner_definitions() { add_definitions_rec(..) }`
AddInner(new_definitions, inner, old_definitions, old_to_new_map, calls) ==
    IF inner = <<>> THEN Added(new_definitions)
    ELSE Let(add_definitions_rec(new_definitions, Head(inner), old_definitions,
                                 old_to_new_map, calls),
             LAMBDA r :
         IF r.overflow THEN r
         ELSE AddInner(r.definitions, Tail(inner), old_definitions, old_to_new_map, calls))

add_definitions_rec(new_definitions, current, old_definitions, old_to_new_map, calls) ==
    IF current \notin DOMAIN old_to_new_map \/ current \notin DOMAIN old_definitions
        THEN Added(new_definitions)
    ELSE IF current \in calls THEN Overflow
    ELSE AddInner((old_to_new_map[current] :>
                       RenamedDefinition(old_definitions[current], old_to_new_map))
                      @@ new_definitions,
                  get_inner_definitions(old_definitions[current]),
                  old_definitions, old_to_new_map, calls \cup {current})

Compressed(declaration, definitions) ==
    [declaration |-> declaration, definitions |-> definitions, st |-> "Ok"]

CompressFailed(how) == [declaration |-> <<>>, definitions |-> <<>>, st |-> how]

\* compress_schema
compress_schema(schema) ==
    Let(RenameLoop(<<schema.declaration>>, <<>>, 0, schema), LAMBDA old_to_new_map :
    Let(add_definitions_rec(<<>>, schema.declaration, schema.definitions, old_to_new_map, {}),
        LAMBDA new :
    IF new.overflow THEN CompressFailed("StackOverflow")
    ELSE IF schema.declaration \notin DOMAIN old_to_new_map THEN CompressFailed("Panic")
    ELSE Compressed(old_to_new_map[schema.declaration], new.definitions)))

(***************************************************************************)
(* The commands: command/{pack,unpack,extract,strip,encode,decode}.rs.     *)
(* execute() returns Ok(()) or an IOError; a panic ends the process.       *)
(* An IOError is [err, detail]: the variant with its &'static str, and the *)
(* String it carries (IncorrectBorshSchemaHeader), else empty.             *)
(***************************************************************************)
Ok == [err |-> "", detail |-> <<>>, st |-> "Ok"]

IOError(err, detail) == [err |-> err, detail |-> detail, st |-> "Err"]

Panic(msg) == [err |-> msg, detail |-> <<>>, st |-> "Panic"]

\* super::output_borsh(writer, value): the Borsh bytes of the value
output_borsh(writer, serialized) == writer \o serialized

\* super::output_bytes(writer, value): the bytes as they are
output_bytes(writer, value) == writer \o value

\* what a command leaves behind: [result, output, json_out, walk]
NoJson == [t |-> "none"]

NoWalk == [ok |-> TRUE, panic |-> FALSE, err |-> "none"]

NoSchema == [declaration |-> <<>>, definitions |-> <<>>, none |-> TRUE]

Some(schema) == [declaration |-> schema.declaration, definitions |-> schema.definitions,
                 none |-> FALSE]

Outcome(res, out, json, w) == [output |-> out, json_out |-> json, result |-> res, walk |-> w]

\* Pack::execute, had it written the input with output_bytes: the bytes
\* without their length
PackWithoutLength(in, ns) ==
    IF ns THEN Outcome(Ok, output_bytes(<<>>, in), NoJson, NoWalk)
    ELSE Outcome(Ok, output_bytes(<<>>, SerSchema(VecU8Schema) \o in), NoJson, NoWalk)

\* Pack::execute, had it not looked at no_schema
PackAlwaysWithSchema(in, ns) ==
    Outcome(Ok, output_borsh(<<>>, SerSchema(VecU8Schema) \o SerBytes(in)), NoJson, NoWalk)

\* Pack::execute
PackExecute(in, ns) ==
    IF ns THEN Outcome(Ok, output_borsh(<<>>, SerBytes(in)), NoJson, NoWalk)
    ELSE Outcome(Ok, output_borsh(<<>>, SerSchema(VecU8Schema) \o SerBytes(in)),
                 NoJson, NoWalk)

\* T::try_from_slice: deserialize, and every byte must have been read
TryFromSlice(r) == IF r.ok /\ r.rest = <<>> THEN r ELSE Fail

\* Unpack::execute, had it not compared the schema with Vec::<u8>'s
UnpackUnchecked(in, ns) ==
    IF ns THEN
        Let(TryFromSlice(DeBytes(in)), LAMBDA v :
        IF ~v.ok THEN Outcome(IOError("DeserializeBorsh: byte array", <<>>),
                              <<>>, NoJson, NoWalk)
        ELSE Outcome(Ok, output_bytes(<<>>, v.v), NoJson, NoWalk))
    ELSE
        Let(DeSchema(in), LAMBDA s :
        Let(IF s.ok THEN TryFromSlice(DeBytes(s.rest)) ELSE Fail, LAMBDA v :
        IF ~v.ok
            THEN Outcome(IOError("DeserializeBorsh: byte array with schema headers", <<>>),
                         <<>>, NoJson, NoWalk)
        ELSE Outcome(Ok, output_bytes(<<>>, v.v), NoJson, NoWalk)))

\* Unpack::execute
UnpackExecute(in, ns) ==
    IF ns THEN
        Let(TryFromSlice(DeBytes(in)), LAMBDA v :
        IF ~v.ok THEN Outcome(IOError("DeserializeBorsh: byte array", <<>>),
                              <<>>, NoJson, NoWalk)
        ELSE Outcome(Ok, output_bytes(<<>>, v.v), NoJson, NoWalk))
    ELSE
        Let(DeSchema(in), LAMBDA s :
        Let(IF s.ok THEN TryFromSlice(DeBytes(s.rest)) ELSE Fail, LAMBDA v :
        IF ~v.ok
            THEN Outcome(IOError("DeserializeBorsh: byte array with schema headers", <<>>),
                         <<>>, NoJson, NoWalk)
        ELSE IF s.v # VecU8Schema
            THEN Outcome(IOError("IncorrectBorshSchemaHeader", s.v.declaration),
                         <<>>, NoJson, NoWalk)
        ELSE Outcome(Ok, output_bytes(<<>>, v.v), NoJson, NoWalk)))

\* Extract::execute, had it written the input it read
ExtractWholeInput(in) ==
    Let(DeSchema(in), LAMBDA s :
    IF ~s.ok THEN Outcome(IOError("DeserializeBorsh: schema", <<>>), <<>>, NoJson, NoWalk)
    ELSE Outcome(Ok, output_bytes(<<>>, in), NoJson, NoWalk))

\* Extract::execute
ExtractExecute(in) ==
    Let(DeSchema(in), LAMBDA s :
    IF ~s.ok THEN Outcome(IOError("DeserializeBorsh: schema", <<>>), <<>>, NoJson, NoWalk)
    ELSE Outcome(Ok, output_borsh(<<>>, SerSchema(s.v)), NoJson, NoWalk))

\* Strip::execute
StripExecute(in) ==
    Let(DeSchema(in), LAMBDA s :
    IF ~s.ok THEN Outcome(IOError("DeserializeBorsh: schema", <<>>), <<>>, NoJson, NoWalk)
    ELSE Outcome(Ok, output_bytes(<<>>, s.rest), NoJson, NoWalk))

\* Encode::execute.  With a schema the schema is written, then the walk
\* writes the value; what was written stays written when the walk fails.
\* Without one the value is written as JsonSerializableAsBorsh
EncodeExecute(value, schema) ==
    IF schema.none
        THEN Outcome(Ok, output_borsh(<<>>, JsonSerializableAsBorsh(value)), NoJson, NoWalk)
    ELSE
    Let(serialize_with_schema(value, schema), LAMBDA w :
    Let(SerSchema(schema) \o w.out, LAMBDA out :
    IF w.ok THEN Outcome(Ok, out, NoJson, w)
    ELSE IF w.panic THEN Outcome(Panic(w.err), out, NoJson, w)
    ELSE Outcome(IOError("WriteBorsh", <<>>), out, NoJson, w)))

\* Decode::execute; h is the state of the hasher of the decoder's HashMap,
\* grants the answer of the allocator to a huge request
DecodeExecute(in, h, grants) ==
    Let(DeSchema(in), LAMBDA s :
    IF ~s.ok THEN Outcome(IOError("DeserializeBorsh: schema", <<>>), <<>>, NoJson, NoWalk)
    ELSE Let(deserialize_from_schema(s.rest, s.v, h, grants), LAMBDA w :
         IF w.ok THEN Outcome(Ok, <<>>, w.v, w)
         ELSE IF w.panic THEN Outcome(Panic(w.err), <<>>, NoJson, w)
         ELSE Outcome(IOError("DeserializeBorsh: data according to embedded schema", <<>>),
                      <<>>, NoJson, w)))

(***************************************************************************)
(* The inputs the commands are run on.                                     *)
(***************************************************************************)
\* names of variants and fields: "A", "B", "C", "a", "b"
k_A == <<65>>
k_B == <<66>>
k_C == <<67>>
k_a == <<97>>
k_b == <<98>>
\* "integer", "child", "s": the fields of the struct of scenario E3
k_integer == <<105, 110, 116, 101, 103, 101, 114>>
k_child   == <<99, 104, 105, 108, 100>>
k_s       == <<115>>

\* user declarations: an array "R", a sequence "Q", a tuple "T", an enum
\* "E", structs with named ("S"), two unnamed ("U"), one unnamed ("N") and
\* no ("Z") fields, the struct "P" of scenario E3 with its child "K", the
\* recursive enum "L" (a list: A is its end, B holds the rest), the tuple "F"
\* of an f64 and a bool, and "X", which no definition declares
d_R == <<82>>
d_Q == <<81>>
d_T == <<84>>
d_E == <<69>>
d_S == <<83>>
d_U == <<85>>
d_N == <<78>>
d_Z == <<90>>
d_P == <<80>>
d_K == <<75>>
d_L == <<76>>
d_X == <<88>>
d_F == <<70>>

Primitives ==
    {s_u8, s_u16, s_u32, s_u64, s_u128, s_i8, s_i16, s_i32, s_i64, s_i128,
     s_f32, s_f64, s_string, s_bool}

\* every definition the model's schemas draw from
AllDefinitions ==
    MapOf(<< <<d_R, Array(2, s_u8)>>,
             <<d_Q, Sequence(s_i8)>>,
             <<s_VecU8, Sequence(s_u8)>>,
             <<d_T, Tuple(<<s_u16, s_bool>>)>>,
             <<d_E, Enum(<< <<k_A, d_Z>>, <<k_B, d_N>>, <<k_C, d_S>> >>)>>,
             <<d_S, NamedFields(<< <<k_a, s_u8>>, <<k_b, s_bool>> >>)>>,
             <<d_U, UnnamedFields(<<s_u8, s_string>>)>>,
             <<d_N, UnnamedFields(<<s_u8>>)>>,
             <<d_Z, EmptyFields>>,
             <<d_P, NamedFields(<< <<k_integer, s_u32>>, <<k_child, d_K>> >>)>>,
             <<d_K, NamedFields(<< <<k_s, s_string>>, <<k_b, s_bool>> >>)>>,
             <<d_L, Enum(<< <<k_A, d_Z>>, <<k_B, d_L>> >>)>>,
             <<d_F, Tuple(<<s_f64, s_bool>>)>> >>)

\* the declarations reachable from a set of declarations
RECURSIVE Reachable(_, _)
Reachable(todo, seen) ==
    IF todo = {} THEN seen
    ELSE LET d     == CHOOSE x \in todo : TRUE
             inner == IF d \in DOMAIN AllDefinitions
                          THEN Range(get_inner_definitions(AllDefinitions[d]))
                          ELSE {}
         IN  Reachable((todo \cup inner) \ (seen \cup {d}), seen \cup {d})

\* the schema of a root declaration: the definitions it reaches, as
\* BorshSchema::schema_container() collects them
SchemaOf(root) ==
    [declaration |-> root,
     definitions |-> [d \in Reachable({root}, {}) \cap DOMAIN AllDefinitions |->
                         AllDefinitions[d]]]

Roots == Primitives \cup DOMAIN AllDefinitions \cup {d_X}

Schemas == {SchemaOf(root) : root \in Roots}

\* the bytes the model builds inputs from
ByteSample == {0, 1, 255}

ByteVecs == SeqsUpTo(ByteSample, MaxLen)

\* 64-bit and 128-bit patterns: 0, 1, 2^63 - 1, 2^63, 2^64 - 1 and
\* 0, 1, 2^100, 2^127 - 1, 2^127, 2^128 - 1
Ones(n) == [i \in 1..n |-> 255]

Wide8 == {Zeros(8), LE(1, 8), Ones(7) \o <<127>>, Zeros(7) \o <<128>>, Ones(8)}

Wide16 ==
    {Zeros(16), LE(1, 16), Zeros(12) \o <<16, 0, 0, 0>>, Ones(15) \o <<127>>, MinI128,
     Ones(16)}

\* JSON numbers: 0, 1, 24, 255, 256, 65535, 65536, 2^63 - 1, 2^63, 2^64 - 1,
\* -1, -128, -129, -2^63 and 1.5
NumSample ==
    {JPos(LE(n, 8)) : n \in {0, 1, 24, 255, 256, 65535, 65536}}
        \cup {JPos(b) : b \in Wide8}
        \cup {JNeg(Ones(8)), JNeg(<<128>> \o Ones(7)), JNeg(<<127>> \o Ones(7)),
              JNeg(Zeros(7) \o <<128>>)}
        \cup {JFloat(<<0, 0, 0, 0, 0, 0, 248, 63>>)}

\* JSON strings: "", "()", the variant names and "D", and decimal numerals
\* in and out of canonical form: "5", "+5", "-5", "05", "-0", "1e3",
\* the numerals of the 128-bit patterns, and 2^128
StrSample ==
    {JStr(s) : s \in {<<>>, <<40, 41>>, k_A, k_B, k_C, <<68>>,
                      <<53>>, <<43, 53>>, <<45, 53>>, <<48, 53>>, <<45, 48>>, <<49, 101, 51>>,
                      Append(Take(UToString(Ones(16)), 38), 54)}}
        \cup {JStr(UToString(b)) : b \in Wide16}
        \cup {JStr(IToString(b)) : b \in Wide16}

Scalars == {JNull, JBool(TRUE), JBool(FALSE)} \cup NumSample \cup StrSample

\* arrays of at most MaxArr elements
ElemSample == {JPos(LE(1, 8)), JPos(LE(256, 8)), JNeg(Ones(8)), JBool(TRUE), JStr(<<40, 41>>)}

Arrays == {JArr(a) : a \in SeqsUpTo(ElemSample, MaxArr)}

\* objects of at most MaxArr members with distinct keys, in every key order
MemberSample ==
    {JPos(LE(1, 8)), JBool(TRUE), JArr(<<>>),
     JObj(<< <<k_a, JPos(LE(1, 8))>>, <<k_b, JBool(TRUE)>> >>)}

Objects ==
    {JObj(o) : o \in {m \in SeqsUpTo({k_A, k_a, k_b} \X MemberSample, MaxArr) :
                         \A i, j \in DOMAIN m : i # j => m[i][1] # m[j][1]}}

\* values of the composite declarations that the sets above do not hold
E3Value ==
    JObj(<< <<k_integer, JPos(LE(24, 8))>>,
            <<k_child, JObj(<< <<k_s, JStr(<<40, 41>>)>>, <<k_b, JBool(FALSE)>> >>)>> >>)

E3Swapped ==
    JObj(<< <<k_child, JObj(<< <<k_b, JBool(FALSE)>>, <<k_s, JStr(<<40, 41>>)>> >>)>>,
            <<k_integer, JPos(LE(24, 8))>> >>)

\* the value of encode.rs tests::without_schema:
\* {"integer":24,"vector":[8,7,6,5,4,3,2,1],"child":{"string":"()","boolean":false}}
k_vector == <<118, 101, 99, 116, 111, 114>>

k_string == <<115, 116, 114, 105, 110, 103>>

k_boolean == <<98, 111, 111, 108, 101, 97, 110>>

ParentValue ==
    JObj(<< <<k_integer, JPos(LE(24, 8))>>,
            <<k_vector, JArr([i \in 1..8 |-> JPos(LE(9 - i, 8))])>>,
            <<k_child, JObj(<< <<k_string, JStr(<<40, 41>>)>>,
                               <<k_boolean, JBool(FALSE)>> >>)>> >>)

Composites ==
    {E3Value, E3Swapped, ParentValue,
     JObj(<< <<k_B, JPos(LE(1, 8))>> >>),
     JObj(<< <<k_B, JArr(<<JPos(LE(1, 8))>>)>> >>),
     JObj(<< <<k_C, JObj(<< <<k_a, JPos(LE(1, 8))>>, <<k_b, JBool(TRUE)>> >>)>> >>),
     JObj(<< <<k_C, JObj(<< <<k_b, JBool(TRUE)>>, <<k_a, JPos(LE(1, 8))>> >>)>> >>),
     JObj(<< <<<<68>>, JArr(<<>>)>> >>),
     JObj(<< <<k_B, JObj(<< <<k_A, JArr(<<>>)>> >>)>> >>),
     JArr(<<JPos(LE(1, 8)), JStr(<<40, 41>>)>>),
     JArr(<<JArr(<<>>)>>),
     JObj(<< <<k_A, JArr(<<>>)>>, <<k_b, JBool(TRUE)>>, <<k_a, JPos(LE(1, 8))>> >>)}

JsonPool == Scalars \cup Arrays \cup Objects \cup Composites

\* the width in bytes of an integer declaration of at most 64 bits
IntWidth(declaration) ==
    IF declaration \in {s_u8, s_i8} THEN 1
    ELSE IF declaration \in {s_u16, s_i16} THEN 2
    ELSE IF declaration \in {s_u32, s_i32} THEN 4
    ELSE 8

\* a JSON number that is an integer of the unsigned / signed type of w bytes
IsUnsignedOf(v, w) == v.t = "num" /\ v.n = "PosInt" /\ \A i \in (w + 1)..8 : v.bits[i] = 0

IsSignedOf(v, w) ==
    /\ v.t = "num"
    /\ \/ v.n = "PosInt" /\ v.bits[w] < 128 /\ \A i \in (w + 1)..8 : v.bits[i] = 0
       \/ v.n = "NegInt" /\ v.bits[w] >= 128 /\ \A i \in (w + 1)..8 : v.bits[i] = 255

\* v is the JSON form of a value of the declared type, as the tests build
\* it with serde_json (json!, to_value): integers in the range of the type,
\* 128-bit integers as the decimal string to_string gives, a struct with
\* named fields as an object of exactly its fields, an enum as the object of
\* one variant name (the form the decoder writes), a struct with one unnamed
\* field as the value of that field, a struct without fields as []; f32 has
\* no values here
RECURSIVE IsJsonOf(_, _, _)
IsJsonOf(v, schema, declaration) ==
    IF declaration \in {s_u8, s_u16, s_u32, s_u64}
        THEN IsUnsignedOf(v, IntWidth(declaration))
    ELSE IF declaration \in {s_i8, s_i16, s_i32, s_i64}
        THEN IsSignedOf(v, IntWidth(declaration))
    ELSE IF declaration = s_u128
        THEN v.t = "str" /\ ParseU128(v.s).ok /\ UToString(ParseU128(v.s).v) = v.s
    ELSE IF declaration = s_i128
        THEN v.t = "str" /\ ParseI128(v.s).ok /\ IToString(ParseI128(v.s).v) = v.s
    ELSE IF declaration = s_f64 THEN v.t = "num" /\ v.n = "Float"
    ELSE IF declaration = s_string THEN v.t = "str"
    ELSE IF declaration = s_bool THEN v.t = "bool"
    ELSE IF declaration \in DOMAIN schema.definitions THEN
        LET d == schema.definitions[declaration]
        IN  IF d.k = "Array" THEN
                /\ v.t = "arr"
                /\ LE32(Len(v.a)) = d.length
                /\ \A i \in DOMAIN v.a : IsJsonOf(v.a[i], schema, d.elements)
            ELSE IF d.k = "Sequence" THEN
                /\ v.t = "arr"
                /\ \A i \in DOMAIN v.a : IsJsonOf(v.a[i], schema, d.elements)
            ELSE IF d.k = "Tuple" THEN
                /\ v.t = "arr"
                /\ Len(v.a) = Len(d.elements)
                /\ \A i \in DOMAIN v.a : IsJsonOf(v.a[i], schema, d.elements[i])
            ELSE IF d.k = "Enum" THEN
                /\ v.t = "obj"
                /\ Len(v.o) = 1
                /\ \E i \in DOMAIN d.variants :
                      /\ d.variants[i][1] = v.o[1][1]
                      /\ IsJsonOf(v.o[1][2], schema, d.variants[i][2])
            ELSE IF d.fields.f = "NamedFields" THEN
                /\ v.t = "obj"
                /\ Len(v.o) = Len(d.fields.named)
                /\ \A i \in DOMAIN d.fields.named :
                      /\ HasKey(v.o, d.fields.named[i][1])
                      /\ IsJsonOf(Get(v.o, d.fields.named[i][1]), schema,
                                  d.fields.named[i][2])
            ELSE IF d.fields.f = "UnnamedFields" THEN
                IF Len(d.fields.unnamed) = 1 THEN IsJsonOf(v, schema, d.fields.unnamed[1])
                ELSE /\ v.t = "arr"
                     /\ Len(v.a) = Len(d.fields.unnamed)
                     /\ \A i \in DOMAIN v.a : IsJsonOf(v.a[i], schema, d.fields.unnamed[i])
            ELSE v = JArr(<<>>)
    ELSE FALSE

\* BorshSerialize::try_to_vec of the value whose JSON form is v: the
\* serialization the tests compare the commands with
RECURSIVE BorshOf(_, _, _)
BorshOf(v, schema, declaration) ==
    IF declaration \in {s_u8, s_u16, s_u32, s_u64, s_i8, s_i16, s_i32, s_i64}
        THEN Take(v.bits, IntWidth(declaration))
    ELSE IF declaration = s_u128 THEN ParseU128(v.s).v
    ELSE IF declaration = s_i128 THEN ParseI128(v.s).v
    ELSE IF declaration = s_f64 THEN v.bits
    ELSE IF declaration = s_string THEN SerBytes(v.s)
    ELSE IF declaration = s_bool THEN <<IF v.b THEN 1 ELSE 0>>
    ELSE LET d == schema.definitions[declaration]
         IN  IF d.k = "Array"
                 THEN Concat([i \in DOMAIN v.a |-> BorshOf(v.a[i], schema, d.elements)])
             ELSE IF d.k = "Sequence"
                 THEN LE32(Len(v.a))
                          \o Concat([i \in DOMAIN v.a |-> BorshOf(v.a[i], schema, d.elements)])
             ELSE IF d.k = "Tuple"
                 THEN Concat([i \in DOMAIN v.a |-> BorshOf(v.a[i], schema, d.elements[i])])
             ELSE IF d.k = "Enum" THEN
                 LET i == CHOOSE i \in DOMAIN d.variants : d.variants[i][1] = v.o[1][1]
                 IN  <<i - 1>> \o BorshOf(v.o[1][2], schema, d.variants[i][2])
             ELSE IF d.fields.f = "NamedFields"
                 THEN Concat([i \in DOMAIN d.fields.named |->
                                 BorshOf(Get(v.o, d.fields.named[i][1]), schema,
                                         d.fields.named[i][2])])
             ELSE IF d.fields.f = "UnnamedFields" THEN
                 IF Len(d.fields.unnamed) = 1 THEN BorshOf(v, schema, d.fields.unnamed[1])
                 ELSE Concat([i \in DOMAIN v.a |->
                                 BorshOf(v.a[i], schema, d.fields.unnamed[i])])
             ELSE <<>>

\* the JSON values of the pool that are values of the schema's root type
TypedValues(schema) == {v \in JsonPool : IsJsonOf(v, schema, schema.declaration)}

\* the entries of a schema's definitions in reverse of the serializer's order
ReversedEntries(schema) ==
    LET keys == SortedKeys(DOMAIN schema.definitions)
        n    == Len(keys)
    IN  [i \in 1..n |-> <<keys[n + 1 - i], schema.definitions[keys[n + 1 - i]]>>]

\* serialized schemas as BorshSchemaContainer::serialize writes them
CanonicalHeaders == {SerSchema(s) : s \in Schemas}

\* serialized schemas that deserialize but that the serializer does not
\* write: the entries in reverse order, and an entry written twice
OtherHeaders ==
    {SerBytes(s.declaration) \o SerEntries(ReversedEntries(s)) :
        s \in {x \in Schemas : Cardinality(DOMAIN x.definitions) > 1}}
    \cup {SerBytes(s_VecU8) \o SerEntries(<< <<s_VecU8, Sequence(s_u8)>>,
                                            <<s_VecU8, Sequence(s_u8)>> >>)}

Headers == CanonicalHeaders \cup OtherHeaders

\* what follows a header: a few raw bytes, a length-prefixed byte vector
\* (with a byte after it or not), a 64-bit or a 128-bit pattern
Tails ==
    ByteVecs \cup {SerBytes(b) : b \in ByteVecs} \cup {SerBytes(<<1>>) \o <<0>>}
        \cup Wide8 \cup Wide16

\* the serialization of a value of the schema's root type
DataOf(schema) == {BorshOf(v, schema, schema.declaration) : v \in TypedValues(schema)}

\* a schema followed by the serialization of a value of its root type
Encodings == UNION {{SerSchema(s) \o b : b \in DataOf(s)} : s \in Schemas}

Blobs == {h \o tl : h \in Headers \cup {<<>>}, tl \in Tails} \cup Encodings

\* the input of scenarios E1 and E2
E2Input == <<1, 2, 3, 4>>

(***************************************************************************)
(* The state machine: a command runs on a fresh input, and a second        *)
(* command may then run on what the first one wrote (a pipeline of two).   *)
(***************************************************************************)
NoPrev == [cmd |-> "none"]

NotCompressed == CompressFailed("none")

\* the renaming loop before it has allocated a name, its counter at `code`:
\* the counter before the last call of next_name and after it, the names the
\* calls have given since, in their order, and whether the counter has left
\* the range of u32 and begun again
Started(code) ==
    [before |-> code, code |-> code, st |-> "Ok", given |-> <<>>, wrapped |-> FALSE]

Init ==
    /\ allocated = Started(0)
    /\ cmd = "none"
    /\ input = <<>>
    /\ json_in = NoJson
    /\ schema_in = NoSchema
    /\ no_schema = FALSE
    /\ output = <<>>
    /\ json_out = NoJson
    /\ result = Ok
    /\ walk = NoWalk
    /\ prev = NoPrev
    /\ compressed = NotCompressed

Current ==
    [cmd |-> cmd, input |-> input, json_in |-> json_in, schema_in |-> schema_in,
     no_schema |-> no_schema, output |-> output, json_out |-> json_out,
     result |-> result, walk |-> walk]

\* the command c with its struct's fields, and what its execute() left
Run(c, in, jin, sin, ns, o, piped) ==
    /\ cmd' = c
    /\ input' = in
    /\ json_in' = jin
    /\ schema_in' = sin
    /\ no_schema' = ns
    /\ output' = o.output
    /\ json_out' = o.json_out
    /\ result' = o.result
    /\ walk' = o.walk
    /\ prev' = IF piped THEN Current ELSE NoPrev
    /\ compressed' = NotCompressed
    /\ allocated' = allocated

\* no command has run yet: the next one reads a fresh input
Fresh == cmd = "none"

\* the command before succeeded and wrote bytes to read
BytesToRead == prev.cmd = "none" /\ result.st = "Ok" /\ cmd \in {"pack", "encode", "extract", "strip", "unpack"}

\* the command before was a decode that wrote a JSON document
JsonToRead == prev.cmd = "none" /\ result.st = "Ok" /\ cmd = "decode"

Pack ==
    \E ns \in BOOLEAN :
        \/ \E b \in ByteVecs \cup {E2Input} :
              Fresh /\ Run("pack", b, NoJson, NoSchema, ns, PackExecute(b, ns), FALSE)
        \/ /\ BytesToRead
           /\ Run("pack", output, NoJson, NoSchema, ns, PackExecute(output, ns), TRUE)

Unpack ==
    \E ns \in BOOLEAN :
        \/ \E b \in Blobs :
              Fresh /\ Run("unpack", b, NoJson, NoSchema, ns, UnpackExecute(b, ns), FALSE)
        \/ /\ BytesToRead
           /\ Run("unpack", output, NoJson, NoSchema, ns, UnpackExecute(output, ns), TRUE)

Extract ==
    \/ \E b \in Blobs :
          Fresh /\ Run("extract", b, NoJson, NoSchema, FALSE, ExtractExecute(b), FALSE)
    \/ /\ BytesToRead
       /\ Run("extract", output, NoJson, NoSchema, FALSE, ExtractExecute(output), TRUE)

Strip ==
    \/ \E b \in Blobs :
          Fresh /\ Run("strip", b, NoJson, NoSchema, FALSE, StripExecute(b), FALSE)
    \/ /\ BytesToRead
       /\ Run("strip", output, NoJson, NoSchema, FALSE, StripExecute(output), TRUE)

Encode ==
    \/ \E s \in Schemas, v \in JsonPool :
          Fresh /\ Run("encode", <<>>, v, Some(s), FALSE, EncodeExecute(v, Some(s)), FALSE)
    \/ \E v \in JsonPool :
          Fresh /\ Run("encode", <<>>, v, NoSchema, FALSE, EncodeExecute(v, NoSchema), FALSE)
    \/ /\ JsonToRead
       /\ LET s == Some(DeSchema(input).v)
          IN  Run("encode", <<>>, json_out, s, FALSE, EncodeExecute(json_out, s), TRUE)

Decode ==
    \E h \in 0..(HashSeeds - 1), grants \in BOOLEAN :
        \/ \E b \in Blobs :
              /\ Fresh
              /\ Run("decode", b, NoJson, NoSchema, FALSE, DecodeExecute(b, h, grants), FALSE)
        \/ /\ BytesToRead
           /\ Run("decode", output, NoJson, NoSchema, FALSE,
                  DecodeExecute(output, h, grants), TRUE)

\* compress_schema on a schema, and the decoder on a buffer under what it
\* returned, as compress_schema.rs test2 runs them
DecodeCompressed(buf, c, h, grants) ==
    IF c.st = "Ok" THEN deserialize_from_schema(buf, c, h, grants) ELSE NoWalk

CompressRun(s, b, c, w) ==
    /\ cmd' = "compress"
    /\ input' = b
    /\ json_in' = NoJson
    /\ schema_in' = Some(s)
    /\ no_schema' = FALSE
    /\ output' = <<>>
    /\ json_out' = IF c.st = "Ok" /\ w.ok THEN w.v ELSE NoJson
    /\ result' = IF c.st = "Ok" THEN Ok ELSE Panic(c.st)
    /\ walk' = w
    /\ prev' = NoPrev
    /\ compressed' = c
    /\ allocated' = allocated

Compress ==
    \E s \in Schemas, h \in 0..(HashSeeds - 1), grants \in BOOLEAN :
        \E b \in Tails \cup DataOf(s) :
            /\ Fresh
            /\ allocated = Started(0)
            /\ CompressRun(s, b, compress_schema(s),
                           DecodeCompressed(b, compress_schema(s), h, grants))

\* one turn of the renaming loop of compress_schema that finds a declaration
\* without a name: `entry.insert(next_name(&mut next_name_code))`.  On an
\* exhausted counter the addition overflows: a build with overflow checks
\* panics there, a build without them wraps and goes on
NextName ==
    /\ cmd \in {"none", "next_name"}
    /\ allocated.st = "Ok"
    /\ Len(allocated.given) < MaxNames
    /\ \E checked \in BOOLEAN :
          allocated' =
              IF Exhausted(allocated.code) /\ checked
                  THEN [before |-> allocated.code, code |-> allocated.code, st |-> "Panic",
                        given |-> allocated.given, wrapped |-> allocated.wrapped]
              ELSE [before |-> allocated.code, code |-> next_name(allocated.code).code,
                    st |-> "Ok",
                    given |-> Append(allocated.given, next_name(allocated.code).name),
                    wrapped |-> allocated.wrapped \/ Exhausted(allocated.code)]
    /\ cmd' = "next_name"
    /\ UNCHANGED <<input, json_in, schema_in, no_schema, output, json_out, result, walk,
                   prev, compressed>>

Next == Pack \/ Unpack \/ Extract \/ Strip \/ Encode \/ Decode \/ Compress \/ NextName

Spec == Init /\ [][Next]_vars

\* the byte-vector commands alone
SpecPack == Init /\ [][Pack \/ Unpack]_vars

\* the commands that split a blob into its schema and its data
SpecHeader == Init /\ [][Extract \/ Strip]_vars

\* the commands of the schema-driven walkers
SpecCodec == Init /\ [][Encode \/ Decode]_vars

\* the schema compressor
SpecCompress == Init /\ [][Compress]_vars

\* counters of the renaming loop: at the start, before, in and after the
\* surrogates, at the steps of the UTF-8 length, and at the last scalar values
StartCodes ==
    (0 .. 2) \cup (126 .. 128) \cup (2046 .. 2048) \cup (55293 .. 55297)
        \cup (57341 .. 57344) \cup (65534 .. 65536) \cup (1114108 .. 1114112)

\* the renaming loop of compress_schema at a counter it can have come to
InitNames ==
    /\ allocated \in {Started(code) : code \in StartCodes}
    /\ cmd = "none"
    /\ input = <<>>
    /\ json_in = NoJson
    /\ schema_in = NoSchema
    /\ no_schema = FALSE
    /\ output = <<>>
    /\ json_out = NoJson
    /\ result = Ok
    /\ walk = NoWalk
    /\ prev = NoPrev
    /\ compressed = NotCompressed

\* the allocation of names, and compress_schema as a whole
SpecNames == InitNames /\ [][NextName \/ Compress]_vars

(***************************************************************************)
(* The properties of the specification, read on the state a command left.  *)
(***************************************************************************)
\* the schema a command decoded from the head of its input
Embedded == DeSchema(input)

\* the bytes of the input that hold the schema
SchemaPrefix == Take(input, Len(input) - Len(Embedded.rest))

\* the entries of the definitions in the order the input holds them
EntriesRead ==
    Let(DeString(input), LAMBDA d :
    Let(ReadU32(d.rest), LAMBDA l : DeEntriesN(l.rest, U32Nat(l.v)).v))

\* the input holds the definitions as HashMap::serialize writes them: the
\* keys ascending, so no key twice
KeysAscend ==
    \A i \in 1..(Len(EntriesRead) - 1) : StrLess(EntriesRead[i][1], EntriesRead[i + 1][1])

\* the bytes of Vec::<u8>::schema_container(): "Vec<u8>", one definition,
\* "Vec<u8>" |-> Sequence { elements: "u8" }
VecU8Header ==
    <<7, 0, 0, 0, 86, 101, 99, 60, 117, 56, 62,
      1, 0, 0, 0,
      7, 0, 0, 0, 86, 101, 99, 60, 117, 56, 62,
      1, 2, 0, 0, 0, 117, 56>>

\* what the decoder writes for a value of the declared type in the form
\* IsJsonOf describes: the same value, but a struct with one unnamed field as
\* the array of that one field
RECURSIVE Decoded(_, _, _)
Decoded(v, schema, declaration) ==
    IF declaration \notin DOMAIN schema.definitions THEN v
    ELSE LET d == schema.definitions[declaration]
         IN  IF d.k \in {"Array", "Sequence"}
                 THEN JArr([i \in DOMAIN v.a |-> Decoded(v.a[i], schema, d.elements)])
             ELSE IF d.k = "Tuple"
                 THEN JArr([i \in DOMAIN v.a |-> Decoded(v.a[i], schema, d.elements[i])])
             ELSE IF d.k = "Enum" THEN
                 LET i == CHOOSE i \in DOMAIN d.variants : d.variants[i][1] = v.o[1][1]
                 IN  JObj(<< <<v.o[1][1], Decoded(v.o[1][2], schema, d.variants[i][2])>> >>)
             ELSE IF d.fields.f = "NamedFields"
                 THEN JObj([i \in DOMAIN d.fields.named |->
                               <<d.fields.named[i][1],
                                 Decoded(Get(v.o, d.fields.named[i][1]), schema,
                                         d.fields.named[i][2])>>])
             ELSE IF d.fields.f = "UnnamedFields" THEN
                 IF Len(d.fields.unnamed) = 1
                     THEN JArr(<<Decoded(v, schema, d.fields.unnamed[1])>>)
                 ELSE JArr([i \in DOMAIN v.a |-> Decoded(v.a[i], schema, d.fields.unnamed[i])])
             ELSE v

\* a decimal numeral as to_string writes it: digits without a leading zero,
\* after a minus sign for a negative number
IsDecimal(s) ==
    LET digits == IF s # <<>> /\ s[1] = 45 THEN Tail(s) ELSE s
    IN  /\ digits # <<>>
        /\ \A i \in DOMAIN digits : digits[i] \in 48..57
        /\ (Len(digits) > 1 => digits[1] # 48)
        /\ (digits = <<48>> => s = digits)

\* C1: unpack run on what pack wrote for a byte vector b, with the same
\* no_schema flag on both sides, succeeds and emits exactly b
PackUnpackRoundTrip ==
    (cmd = "unpack" /\ prev.cmd = "pack" /\ prev.no_schema = no_schema)
        => (result = Ok /\ output = prev.input)

PackUnpackRoundTripSeen ==
    /\ cmd = "unpack"
    /\ prev.cmd = "pack"
    /\ ~no_schema
    /\ ~prev.no_schema
    /\ prev.input = E2Input
    /\ input = VecU8Header \o <<4, 0, 0, 0>> \o E2Input
    /\ output = E2Input

\* C2: pack with no_schema writes the 4-byte little-endian length of its
\* input and then the input; without no_schema it writes the serialized
\* schema of Vec<u8> before that; it writes nothing else, and it succeeds
PackOutputFormat ==
    cmd = "pack" =>
        /\ result = Ok
        /\ output = (IF no_schema THEN <<>> ELSE VecU8Header)
                        \o <<Len(input) % 256, (Len(input) \div 256) % 256, 0, 0>>
                        \o input

PackOutputFormatSeen ==
    /\ cmd = "pack"
    /\ no_schema
    /\ input = E2Input
    /\ output = <<4, 0, 0, 0, 1, 2, 3, 4>>

\* C3: unpack without no_schema, on an input that deserializes as a schema
\* and a byte vector where the schema is not Vec<u8>'s, returns
\* IncorrectBorshSchemaHeader with the declaration of that schema and writes
\* nothing
UnpackHeaderCheck ==
    (/\ cmd = "unpack"
     /\ ~no_schema
     /\ Embedded.ok
     /\ TryFromSlice(DeBytes(Embedded.rest)).ok
     /\ Embedded.v # VecU8Schema)
        => /\ result = IOError("IncorrectBorshSchemaHeader", Embedded.v.declaration)
           /\ output = <<>>

UnpackHeaderCheckSeen ==
    /\ cmd = "unpack"
    /\ ~no_schema
    /\ Embedded.ok
    /\ Embedded.v = SchemaOf(d_P)
    /\ Embedded.rest = <<1, 0, 0, 0, 255>>
    /\ result.err = "IncorrectBorshSchemaHeader"
    /\ result.detail = d_P
    /\ output = <<>>

\* C4, as the code has it: on an input that starts with a schema, strip
\* emits the bytes after the schema and extract emits the schema serialized
\* anew; when the input holds the definitions with their keys ascending, as
\* the serializer writes them, extract emits the schema's bytes as they are
\* in the input and the two outputs one after the other are the input
ExtractStripCanonical ==
    (cmd = "extract" /\ Embedded.ok) =>
        /\ result = Ok
        /\ StripExecute(input).result = Ok
        /\ StripExecute(input).output = Embedded.rest
        /\ DeSchema(output) = Got(Embedded.v, <<>>)
        /\ KeysAscend =>
              /\ output = SchemaPrefix
              /\ output \o StripExecute(input).output = input

ExtractStripCanonicalSeen ==
    /\ cmd = "extract"
    /\ Embedded.ok
    /\ KeysAscend
    /\ Embedded.v = SchemaOf(d_P)
    /\ Embedded.rest = <<1, 0, 0, 0, 255>>
    /\ output = SerSchema(SchemaOf(d_P))
    /\ StripExecute(input).output = <<1, 0, 0, 0, 255>>

\* C4, as stated: on every input that starts with a schema, in whatever
\* order it holds the definitions, extract emits the schema's bytes of the
\* input, strip the bytes after them, and the two outputs one after the
\* other are the input
ExtractStripComplementarity ==
    (cmd = "extract" /\ Embedded.ok) =>
        /\ result = Ok
        /\ output = SchemaPrefix
        /\ StripExecute(input).output = Embedded.rest
        /\ output \o StripExecute(input).output = input

\* C5, as the code has it: when the value encoded is a value of the
\* schema's root type in its JSON form (IsJsonOf) and the encoder accepted
\* it, decode on what encode wrote succeeds and gives that value, with every
\* struct of one unnamed field as the array of that field
RoundTripOfTypedValues ==
    (/\ cmd = "decode"
     /\ prev.cmd = "encode"
     /\ IsJsonOf(prev.json_in, prev.schema_in, prev.schema_in.declaration))
        => /\ result = Ok
           /\ JsonEq(json_out, Decoded(prev.json_in, prev.schema_in,
                                       prev.schema_in.declaration))

RoundTripOfTypedValuesSeen ==
    /\ cmd = "decode"
    /\ prev.cmd = "encode"
    /\ prev.schema_in.declaration = d_P
    /\ prev.json_in = E3Swapped
    /\ result = Ok
    /\ JsonEq(json_out, E3Value)

\* C5, as stated: whatever value the encoder accepted, decode on what
\* encode wrote succeeds and gives a value equal to it
RoundTripWithSchema ==
    (cmd = "decode" /\ prev.cmd = "encode")
        => (result = Ok /\ JsonEq(json_out, prev.json_in))

\* C6: compress_schema returns a schema, and decoding a buffer under it
\* gives what decoding under the schema it was given gives: the same value
\* and the same bytes left over, or a failure where that fails
CompressionPreservesSemantics ==
    cmd = "compress" =>
        /\ compressed.st = "Ok"
        /\ walk.ok = deserialize_from_schema(input, schema_in, 0, TRUE).ok
        /\ walk.ok =>
              /\ JsonEq(walk.v, deserialize_from_schema(input, schema_in, 0, TRUE).v)
              /\ walk.rest = deserialize_from_schema(input, schema_in, 0, TRUE).rest

CompressionPreservesSemanticsSeen ==
    /\ cmd = "compress"
    /\ schema_in.declaration = d_P
    /\ compressed.st = "Ok"
    /\ compressed.declaration # d_P
    /\ walk.ok
    /\ JsonEq(walk.v, E3Value)
    /\ walk.rest = <<>>

\* C7: under a root Enum, for an object of one member {name: payload}: when
\* name is the variant at position i (from 0) the walk writes the byte i and
\* then what the payload gives under that variant's declaration, and ends as
\* that ends; when no variant has the name the walk ends in an error and
\* has written nothing
EnumVariantEncoding ==
    (/\ cmd = "encode"
     /\ schema_in.declaration \in DOMAIN schema_in.definitions
     /\ schema_in.definitions[schema_in.declaration].k = "Enum"
     /\ json_in.t = "obj"
     /\ Len(json_in.o) = 1)
        => LET variants == schema_in.definitions[schema_in.declaration].variants
           IN  /\ \A i \in DOMAIN variants :
                     (/\ variants[i][1] = json_in.o[1][1]
                      /\ \A j \in 1..(i - 1) : variants[j][1] # json_in.o[1][1])
                         => walk = After(<<i - 1>>,
                                         serialize_declaration_with_schema(
                                             json_in.o[1][2], schema_in, variants[i][2]))
               /\ (\A i \in DOMAIN variants : variants[i][1] # json_in.o[1][1])
                     => /\ ~walk.ok
                        /\ ~walk.panic
                        /\ walk.out = <<>>
                        /\ result.st = "Err"

EnumVariantEncodingSeen ==
    /\ cmd = "encode"
    /\ schema_in.declaration = d_E
    /\ json_in = JObj(<< <<k_C, JObj(<< <<k_b, JBool(TRUE)>>, <<k_a, JPos(LE(1, 8))>> >>)>> >>)
    /\ walk.ok
    /\ walk.out = <<2, 1, 1>>
    /\ output = SerSchema(SchemaOf(d_E)) \o <<2, 1, 1>>

\* C8: decode of 16 bytes under "u128" or "i128" gives a JSON string, the
\* decimal numeral of the number the bytes hold; encode of what that decode
\* wrote gives the input of the decode back; and a JSON number under "u128"
\* or "i128" ends the encoder's walk with "Expected string"
Transport128 ==
    /\ (/\ cmd = "decode"
        /\ Embedded.ok
        /\ Embedded.v.declaration \in {s_u128, s_i128}
        /\ Len(Embedded.rest) = 16)
          => /\ result = Ok
             /\ json_out.t = "str"
             /\ IsDecimal(json_out.s)
             /\ (Embedded.v.declaration = s_u128 => json_out.s[1] # 45)
             /\ (Embedded.v.declaration = s_i128 =>
                    (json_out.s[1] = 45 <=> Embedded.rest[16] >= 128))
             /\ (Embedded.rest = Zeros(12) \o <<16, 0, 0, 0>> =>
                    json_out.s = <<49, 50, 54, 55, 54, 53, 48, 54, 48, 48, 50, 50, 56, 50, 50,
                                   57, 52, 48, 49, 52, 57, 54, 55, 48, 51, 50, 48, 53, 51, 55,
                                   54>>)
    /\ (/\ cmd = "encode"
        /\ prev.cmd = "decode"
        /\ schema_in.declaration \in {s_u128, s_i128}
        /\ Len(DeSchema(prev.input).rest) = 16)
          => (result = Ok /\ output = prev.input)
    /\ (/\ cmd = "encode"
        /\ schema_in.declaration \in {s_u128, s_i128}
        /\ json_in.t = "num")
          => /\ walk = EErr("Expected string", <<>>, <<>>)
             /\ result.st = "Err"

Transport128Seen ==
    /\ cmd = "encode"
    /\ prev.cmd = "decode"
    /\ schema_in.declaration = s_u128
    /\ json_in = JStr(<<49, 50, 54, 55, 54, 53, 48, 54, 48, 48, 50, 50, 56, 50, 50,
                        57, 52, 48, 49, 52, 57, 54, 55, 48, 51, 50, 48, 53, 51, 55, 54>>)
    /\ output = SerSchema(SchemaOf(s_u128)) \o Zeros(12) \o <<16, 0, 0, 0>>
    /\ output = prev.input

\* C9: encode of a value of the schema's root type writes the serialized
\* schema and then the Borsh serialization of the value: the fields of a
\* struct in declared order, the elements of an array without a length
EncodeMatchesReference ==
    (/\ cmd = "encode"
     /\ IsJsonOf(json_in, schema_in, schema_in.declaration))
        => /\ result = Ok
           /\ output = SerSchema(schema_in) \o BorshOf(json_in, schema_in, schema_in.declaration)

EncodeMatchesReferenceSeen ==
    /\ cmd = "encode"
    /\ schema_in.declaration = d_P
    /\ json_in = E3Value
    /\ result = Ok
    /\ output = SerSchema(SchemaOf(d_P)) \o <<24, 0, 0, 0, 2, 0, 0, 0, 40, 41, 0>>

\* C10: decode of a serialized schema followed by the Borsh serialization
\* of a value of its root type succeeds and gives the JSON of that value: an
\* object of exactly the declared names for a struct with named fields, an
\* array of the declared length for an array, a number for an integer of at
\* most 64 bits
DecodeGivesValue ==
    (cmd = "decode" /\ Embedded.ok) =>
        \A v \in JsonPool :
            (/\ IsJsonOf(v, Embedded.v, Embedded.v.declaration)
             /\ Embedded.rest = BorshOf(v, Embedded.v, Embedded.v.declaration))
                => /\ result = Ok
                   /\ JsonEq(json_out, Decoded(v, Embedded.v, Embedded.v.declaration))

DecodeGivesValueSeen ==
    /\ cmd = "decode"
    /\ input = SerSchema(SchemaOf(d_P)) \o <<24, 0, 0, 0, 2, 0, 0, 0, 40, 41, 0>>
    /\ result = Ok
    /\ json_out.t = "obj"
    /\ Range(Keys(json_out.o)) = {k_integer, k_child}
    /\ JsonEq(json_out, E3Value)

\* C11: the schema-less encoder writes every JSON number as the eight
\* bytes of an f64: a number that is not integral as itself, and an integral
\* one, negative or not, as the f64 nearest to it
SchemalessNumberIsF64 ==
    (cmd = "encode" /\ schema_in.none /\ json_in.t = "num") =>
        /\ result = Ok
        /\ Len(output) = 8
        /\ output = IF json_in.n = "Float" THEN json_in.bits
                    ELSE IF json_in.n = "PosInt" THEN IntAsF64(json_in.bits, 0)
                    ELSE IntAsF64(Negate(json_in.bits), 1)

\* C11 as the specification states it: an f64 only for a number that is not
\* integral, the little-endian u64 of an integral number that is not
\* negative, the little-endian i64 of a negative one
SchemalessNumberMapping ==
    (cmd = "encode" /\ schema_in.none /\ json_in.t = "num") =>
        output = json_in.bits

\* 24 is written as the f64 24.0
SchemalessNumberIsF64Seen ==
    /\ cmd = "encode"
    /\ schema_in.none
    /\ json_in = JPos(LE(24, 8))
    /\ result = Ok
    /\ output = <<0, 0, 0, 0, 0, 0, 56, 64>>

\* the f64 of the integers of the inputs as f64::to_le_bytes gives it, the
\* five low bytes being zero: <<number, the three high bytes>>
F64Sample ==
    {<<JPos(LE(0, 8)), <<0, 0, 0>>>>, <<JPos(LE(1, 8)), <<0, 240, 63>>>>,
     <<JPos(LE(24, 8)), <<0, 56, 64>>>>, <<JPos(LE(255, 8)), <<224, 111, 64>>>>,
     <<JPos(LE(256, 8)), <<0, 112, 64>>>>, <<JPos(LE(65536, 8)), <<0, 240, 64>>>>,
     <<JPos(Ones(7) \o <<127>>), <<0, 224, 67>>>>, <<JPos(Zeros(7) \o <<128>>), <<0, 224, 67>>>>,
     <<JPos(Ones(8)), <<0, 240, 67>>>>, <<JNeg(Ones(8)), <<0, 240, 191>>>>,
     <<JNeg(<<128>> \o Ones(7)), <<0, 96, 192>>>>, <<JNeg(<<127>> \o Ones(7)), <<32, 96, 192>>>>,
     <<JNeg(Zeros(7) \o <<128>>), <<0, 224, 195>>>>}

\* <JsonParent as BorshDeserialize>::try_from_slice of tests::without_schema:
\* an f64, a Vec<f64> (kept as the bytes of its elements), and a Child of a
\* String and a bool
JsonParentFromSlice(buf) ==
    Try(ReadBytes(buf, 8), LAMBDA i :
    Try(ReadU32(i.rest), LAMBDA n :
    Try(ReadBytes(n.rest, 8 * U32Nat(n.v)), LAMBDA v :
    Try(DeString(v.rest), LAMBDA str :
    Try(DeBool(str.rest), LAMBDA b :
        IF b.rest = <<>> THEN Got(<<i.v, U32Nat(n.v), v.v, str.v, b.v>>, <<>>) ELSE Fail)))))

\* JsonParent {integer: 24.0, vector: vec![8.0, 7.0, 6.0, 5.0, 4.0, 3.0, 2.0,
\* 1.0], child: Child {string: "()", boolean: false}}
JsonParentExpected ==
    <<Zeros(5) \o <<0, 56, 64>>,
      8,
      Zeros(5) \o <<0, 32, 64>> \o Zeros(5) \o <<0, 28, 64>> \o Zeros(5) \o <<0, 24, 64>>
          \o Zeros(5) \o <<0, 20, 64>> \o Zeros(5) \o <<0, 16, 64>> \o Zeros(5) \o <<0, 8, 64>>
          \o Zeros(5) \o <<0, 0, 64>> \o Zeros(5) \o <<0, 240, 63>>,
      <<40, 41>>,
      FALSE>>

\* C12: encode without a schema of the object of the test (an integer, an
\* array of integers, an object of a string and a bool) writes bytes that
\* read back as an f64, a Vec of f64, a String and a bool, in that order;
\* every JSON number, an integral one too, is written as the eight bytes of
\* its f64
WithoutSchemaAsTested ==
    (cmd = "encode" /\ schema_in.none) =>
        /\ result = Ok
        /\ json_in = ParentValue =>
              JsonParentFromSlice(output) = Got(JsonParentExpected, <<>>)
        /\ \A e \in F64Sample : json_in = e[1] => output = Zeros(5) \o e[2]
        /\ (/\ json_in.t = "arr"
            /\ \A i \in DOMAIN json_in.a : \E e \in F64Sample : json_in.a[i] = e[1])
               => output = LE32(Len(json_in.a))
                      \o Concat([i \in DOMAIN json_in.a |->
                             Zeros(5) \o (CHOOSE e \in F64Sample : json_in.a[i] = e[1])[2]])

WithoutSchemaAsTestedSeen ==
    /\ cmd = "encode"
    /\ schema_in.none
    /\ json_in = ParentValue
    /\ result = Ok
    /\ Len(output) = 8 + 4 + 64 + 6 + 1
    /\ JsonParentFromSlice(output).ok
    /\ JsonParentFromSlice(output).v[1] = <<0, 0, 0, 0, 0, 0, 56, 64>>

\* C13: the schema-less encoder writes an array as the u32 count of its
\* elements and then their encodings, an object as the encodings of its
\* values one after the other in the order the object holds them, with no
\* key and no length (nothing at all for the empty object), and null as the
\* one byte 0
SchemalessComposites ==
    (cmd = "encode" /\ schema_in.none) =>
        /\ result = Ok
        /\ json_in.t = "null" => output = <<0>>
        /\ json_in.t = "arr" =>
              /\ Take(output, 4) = LE32(Len(json_in.a))
              /\ Drop(output, 4)
                    = Concat([i \in DOMAIN json_in.a |-> JsonSerializableAsBorsh(json_in.a[i])])
        /\ json_in.t = "obj" =>
              /\ output
                    = Concat([i \in DOMAIN json_in.o |-> JsonSerializableAsBorsh(json_in.o[i][2])])
              /\ json_in.o = <<>> => output = <<>>
              /\ \A w \in Objects \cup Composites :
                    (w.t = "obj" /\ Len(w.o) = Len(json_in.o)
                        /\ \A i \in DOMAIN w.o : w.o[i][2] = json_in.o[i][2])
                        => output = JsonSerializableAsBorsh(w)

\* an object written member by member in its own order: the bytes differ
\* from those of the equal object that holds the members the other way round
SchemalessCompositesSeen ==
    /\ cmd = "encode"
    /\ schema_in.none
    /\ json_in = JObj(<< <<k_a, JPos(LE(1, 8))>>, <<k_b, JBool(TRUE)>> >>)
    /\ output = <<0, 0, 0, 0, 0, 0, 240, 63, 1>>
    /\ JsonEq(json_in, JObj(<< <<k_b, JBool(TRUE)>>, <<k_a, JPos(LE(1, 8))>> >>))
    /\ JsonSerializableAsBorsh(JObj(<< <<k_b, JBool(TRUE)>>, <<k_a, JPos(LE(1, 8))>> >>))
          = <<1, 0, 0, 0, 0, 0, 0, 240, 63>>

\* a declaration that is neither a primitive of the format nor a key of the
\* schema's definitions
IsDangling(schema, declaration) ==
    declaration \notin Primitives \cup DOMAIN schema.definitions

\* C14: when the decoder or the encoder reaches a declaration that is
\* neither primitive nor a key of the definitions, the walk ends with an
\* error that the command returns: the process does not abort
DanglingIsAnError ==
    /\ (cmd = "decode" /\ Embedded.ok /\ IsDangling(Embedded.v, Embedded.v.declaration))
          => result.st = "Err" /\ ~walk.panic
    /\ (cmd = "encode" /\ ~schema_in.none /\ IsDangling(schema_in, schema_in.declaration))
          => result.st = "Err" /\ ~walk.panic

\* decode under the root "X" that the schema does not define: todo!() ends
\* the process
DanglingIsAnErrorSeen ==
    /\ cmd = "decode"
    /\ Embedded.ok
    /\ Embedded.v.declaration = d_X
    /\ Embedded.v.definitions = <<>>
    /\ walk.panic
    /\ result = Panic("not yet implemented: Unknown type to deserialize")
    /\ json_out = NoJson

\* C15: decoding under an Enum of n variants a variant index that is at
\* least n gives an error and no JSON value
EnumIndexOutOfRange ==
    (/\ cmd = "decode"
     /\ Embedded.ok
     /\ Embedded.v.declaration \in DOMAIN Embedded.v.definitions
     /\ Embedded.v.definitions[Embedded.v.declaration].k = "Enum"
     /\ Embedded.rest # <<>>
     /\ Embedded.rest[1] >= Len(Embedded.v.definitions[Embedded.v.declaration].variants))
        => /\ result.st = "Err"
           /\ ~walk.panic
           /\ json_out = NoJson

\* the index 255 under the Enum "E" of three variants: the indexing of the
\* variants ends the process
EnumIndexOutOfRangeSeen ==
    /\ cmd = "decode"
    /\ input = SerSchema(SchemaOf(d_E)) \o <<255>>
    /\ walk.panic
    /\ result = Panic("index out of bounds")
    /\ json_out = NoJson

\* C16: under "i64" the encoder accepts every JSON integer from -2^63 to
\* 2^63 - 1 and writes its eight bytes in two's complement, little-endian;
\* it rejects an integer outside that range
I64Encoding ==
    (/\ cmd = "encode"
     /\ ~schema_in.none
     /\ schema_in.declaration = s_i64
     /\ json_in.t = "num"
     /\ json_in.n \in {"PosInt", "NegInt"})
        => IF json_in.n = "NegInt" \/ ~IsNegative(json_in.bits)
               THEN result = Ok /\ output = SerSchema(schema_in) \o json_in.bits
               ELSE result.st = "Err" /\ output = SerSchema(schema_in)

\* -1 under "i64" is rejected: as_u64 answers None for a negative number
I64EncodingSeen ==
    /\ cmd = "encode"
    /\ schema_in = Some(SchemaOf(s_i64))
    /\ json_in = JNeg(Ones(8))
    /\ result = IOError("WriteBorsh", <<>>)
    /\ walk.err = "Expected number"
    /\ output = SerSchema(SchemaOf(s_i64))

\* C17: under "u8", "u16", "u32", "i8", "i16" or "i32" the encoder writes
\* the little-endian bytes of the JSON integer in the width of the declaration
\* exactly when the integer is in the range of the declaration; for an
\* integer out of range, a negative one under an unsigned declaration, or a
\* value that is not an integer it returns an error and writes no byte
IntegerNarrowing ==
    (/\ cmd = "encode"
     /\ ~schema_in.none
     /\ schema_in.declaration \in {s_u8, s_u16, s_u32, s_i8, s_i16, s_i32})
        => LET w == IntWidth(schema_in.declaration)
               inRange == IF schema_in.declaration \in {s_u8, s_u16, s_u32}
                              THEN IsUnsignedOf(json_in, w)
                              ELSE IsSignedOf(json_in, w)
           IN  IF inRange
                   THEN /\ result = Ok
                        /\ output = SerSchema(schema_in) \o Take(json_in.bits, w)
                   ELSE /\ result = IOError("WriteBorsh", <<>>)
                        /\ walk.out = <<>>
                        /\ output = SerSchema(schema_in)

\* 256 under "u8": an error, and nothing after the schema
IntegerNarrowingSeen ==
    /\ cmd = "encode"
    /\ schema_in = Some(SchemaOf(s_u8))
    /\ json_in = JPos(LE(256, 8))
    /\ result = IOError("WriteBorsh", <<>>)
    /\ walk.err = "TryFromIntError"
    /\ output = SerSchema(SchemaOf(s_u8))

\* C18: under an Array, a Tuple or a Struct of two or more unnamed fields
\* the encoder takes a JSON array of exactly the declared length: for another
\* length it returns ArrayOfLength(declared length), for a value that is not
\* an array the expected-array error, and in both cases it writes no byte of
\* the aggregate
FixedLengthAggregates ==
    (/\ cmd = "encode"
     /\ ~schema_in.none
     /\ schema_in.declaration \in DOMAIN schema_in.definitions
     /\ LET d == schema_in.definitions[schema_in.declaration]
        IN  \/ d.k \in {"Array", "Tuple"}
            \/ d.k = "Struct" /\ d.fields.f = "UnnamedFields" /\ Len(d.fields.unnamed) >= 2)
        => LET d == schema_in.definitions[schema_in.declaration]
               declared == IF d.k = "Array" THEN U32Nat(d.length)
                           ELSE IF d.k = "Tuple" THEN Len(d.elements)
                           ELSE Len(d.fields.unnamed)
           IN  /\ json_in.t # "arr"
                     => /\ result = IOError("WriteBorsh", <<>>)
                        /\ walk.err = "Expected array"
                        /\ walk.out = <<>>
                        /\ output = SerSchema(schema_in)
               /\ (json_in.t = "arr" /\ Len(json_in.a) # declared)
                     => /\ result = IOError("WriteBorsh", <<>>)
                        /\ walk.err = "Expected array of length"
                        /\ walk.detail = LE32(declared)
                        /\ walk.out = <<>>
                        /\ output = SerSchema(schema_in)
               /\ (json_in.t = "arr" /\ Len(json_in.a) = declared)
                     => walk.err \notin {"Expected array", "Expected array of length"}
               /\ result = Ok => json_in.t = "arr" /\ Len(json_in.a) = declared

\* an array of one element under the Tuple "T" of two: ArrayOfLength(2),
\* although its one element could have been written
FixedLengthAggregatesSeen ==
    /\ cmd = "encode"
    /\ schema_in = Some(SchemaOf(d_T))
    /\ json_in = JArr(<<JPos(LE(1, 8))>>)
    /\ result = IOError("WriteBorsh", <<>>)
    /\ walk.err = "Expected array of length"
    /\ walk.detail = <<2, 0, 0, 0>>
    /\ output = SerSchema(SchemaOf(d_T))

\* the members of an object whose keys are declared fields
DeclaredMembers(o, named) ==
    {o[i] : i \in {j \in DOMAIN o : \E f \in DOMAIN named : named[f][1] = o[j][1]}}

\* the declared fields that the object has no member for, by position
MissingFields(o, named) ==
    {f \in DOMAIN named : \A j \in DOMAIN o : o[j][1] # named[f][1]}

\* C19: under a Struct with named fields the encoder writes the fields in
\* the declared order whatever the order of the keys of the object, so two
\* objects with the same members in another order give the same bytes; the
\* keys that are not declared fields change nothing; a declared field that
\* the object lacks gives an error naming its key
NamedFieldEncoding ==
    (/\ cmd = "encode"
     /\ ~schema_in.none
     /\ schema_in.declaration \in DOMAIN schema_in.definitions
     /\ schema_in.definitions[schema_in.declaration].k = "Struct"
     /\ schema_in.definitions[schema_in.declaration].fields.f = "NamedFields"
     /\ json_in.t = "obj")
        => LET named   == schema_in.definitions[schema_in.declaration].fields.named
               members == DeclaredMembers(json_in.o, named)
               missing == MissingFields(json_in.o, named)
               field(f) == (CHOOSE m \in members : m[1] = named[f][1])[2]
           IN  /\ (/\ missing = {}
                   /\ \A f \in DOMAIN named : IsJsonOf(field(f), schema_in, named[f][2]))
                     => /\ result = Ok
                        /\ output = SerSchema(schema_in)
                              \o Concat([f \in DOMAIN named |->
                                    BorshOf(field(f), schema_in, named[f][2])])
               /\ missing # {}
                     => /\ result = IOError("WriteBorsh", <<>>)
                        /\ walk.err = "Expected property"
                              => \E f \in missing :
                                    /\ walk.detail = named[f][1]
                                    /\ \A g \in missing : f <= g
                        /\ (\A f \in DOMAIN named :
                               (\A g \in missing : f < g)
                                   => IsJsonOf(field(f), schema_in, named[f][2]))
                              => walk.err = "Expected property"
               /\ \A v \in Objects \cup Composites :
                     (v.t = "obj" /\ DeclaredMembers(v.o, named) = members)
                         => /\ EncodeExecute(v, schema_in).result = result
                            /\ EncodeExecute(v, schema_in).output = output

\* {"A":[],"b":true,"a":1} under the Struct "S" of a: u8 and b: bool: the
\* bytes of a, then of b; "A" is not written
NamedFieldEncodingSeen ==
    /\ cmd = "encode"
    /\ schema_in = Some(SchemaOf(d_S))
    /\ json_in = JObj(<< <<k_A, JArr(<<>>)>>, <<k_b, JBool(TRUE)>>, <<k_a, JPos(LE(1, 8))>> >>)
    /\ result = Ok
    /\ output = SerSchema(SchemaOf(d_S)) \o <<1, 1>>

\* the schema's root is a Struct with exactly one unnamed field
IsNewtype(schema) ==
    /\ schema.declaration \in DOMAIN schema.definitions
    /\ schema.definitions[schema.declaration].k = "Struct"
    /\ schema.definitions[schema.declaration].fields.f = "UnnamedFields"
    /\ Len(schema.definitions[schema.declaration].fields.unnamed) = 1

\* the declaration of the one field
FieldOf(schema) == schema.definitions[schema.declaration].fields.unnamed[1]

\* the bytes the walk of the decode before read: what followed the schema,
\* less what the walk left
Consumed ==
    LET data == DeSchema(prev.input).rest
    IN  Take(data, Len(data) - Len(prev.walk.rest))

\* C20: under a Struct with exactly one unnamed field of declaration D the
\* encoder writes a value x as it writes x under D, and the decoder gives the
\* array of the one value it reads under D; so the encoding of x decodes to
\* [x], and the decoded [y] is encoded as [y] under D, which an integer D
\* rejects
NewtypeShortcut ==
    /\ (cmd = "encode" /\ ~schema_in.none /\ IsNewtype(schema_in))
          => /\ walk = serialize_declaration_with_schema(json_in, schema_in, FieldOf(schema_in))
             /\ output = SerSchema(schema_in) \o walk.out
             /\ (prev.cmd = "decode" /\ FieldOf(schema_in) \in {s_u8, s_u16, s_u32, s_u64})
                   => /\ json_in.t = "arr"
                      /\ Len(json_in.a) = 1
                      /\ result = IOError("WriteBorsh", <<>>)
                      /\ walk.err = "Expected number"
                      /\ walk.out = <<>>
    /\ (cmd = "decode" /\ Embedded.ok /\ IsNewtype(Embedded.v))
          => \E h \in 0..(HashSeeds - 1) :
                LET w == deserialize_declaration_from_schema(
                             Embedded.rest, Embedded.v, FieldOf(Embedded.v), h, TRUE)
                IN  /\ walk.ok = w.ok
                    /\ w.ok => JsonEq(json_out, JArr(<<w.v>>)) /\ walk.rest = w.rest
    /\ (cmd = "decode" /\ prev.cmd = "encode" /\ ~prev.schema_in.none
          /\ IsNewtype(prev.schema_in))
          => /\ result = Ok
             /\ json_out.t = "arr"
             /\ Len(json_out.a) = 1
             /\ FieldOf(prev.schema_in) \in {s_u8, s_u16, s_u32, s_u64}
                   => json_out.a[1] = prev.json_in

\* C20 as the specification states it: what the decoder gave under the
\* Struct is encoded under the Struct to the bytes the decoder read, and the
\* encoding of x under the Struct is decoded to x
NewtypeRoundTrip ==
    /\ (cmd = "encode" /\ prev.cmd = "decode" /\ IsNewtype(schema_in))
          => result = Ok /\ walk.out = Consumed
    /\ (cmd = "decode" /\ prev.cmd = "encode" /\ ~prev.schema_in.none
          /\ IsNewtype(prev.schema_in))
          => result = Ok /\ JsonEq(json_out, prev.json_in)

\* the byte 1 under the Struct "N" of one u8 is decoded to [1], and [1] is
\* not a number: the encoder writes nothing after the schema
NewtypeShortcutSeen ==
    /\ cmd = "encode"
    /\ prev.cmd = "decode"
    /\ prev.input = SerSchema(SchemaOf(d_N)) \o <<1>>
    /\ schema_in = Some(SchemaOf(d_N))
    /\ json_in = JArr(<<JPos(LE(1, 8))>>)
    /\ result = IOError("WriteBorsh", <<>>)
    /\ walk.err = "Expected number"
    /\ output = SerSchema(SchemaOf(d_N))

\* the schema's root is an Enum
IsEnumRoot(schema) ==
    /\ schema.declaration \in DOMAIN schema.definitions
    /\ schema.definitions[schema.declaration].k = "Enum"

\* C21: under an Enum the encoder accepts only an object of exactly one key
\* or a bare string; an object of no key or of two or more keys, and every
\* value of another kind, is rejected with an error and no byte is written
EnumInputShape ==
    (cmd = "encode" /\ ~schema_in.none /\ IsEnumRoot(schema_in))
        => \/ json_in.t = "str"
           \/ json_in.t = "obj" /\ Len(json_in.o) = 1
           \/ /\ result.st = "Err"
              /\ walk.out = <<>>
              /\ output = SerSchema(schema_in)

\* {"A":1,"a":1} under the Enum "E": the first key names the variant, the
\* second member is never looked at
EnumInputShapeSeen ==
    /\ cmd = "encode"
    /\ schema_in = Some(SchemaOf(d_E))
    /\ json_in = JObj(<< <<k_A, JPos(LE(1, 8))>>, <<k_a, JPos(LE(1, 8))>> >>)
    /\ result = Ok
    /\ output = SerSchema(SchemaOf(d_E)) \o <<0>>

\* the declarations the Definitions of the declarations in `from` refer to
InnerOf(schema, from) ==
    UNION {{get_inner_definitions(schema.definitions[d])[i] :
               i \in DOMAIN get_inner_definitions(schema.definitions[d])} :
           d \in from \cap DOMAIN schema.definitions}

\* the declarations reached from `from` in one step or more
RECURSIVE ReachedFrom(_, _, _)
ReachedFrom(schema, from, seen) ==
    IF InnerOf(schema, from) \subseteq seen THEN seen
    ELSE ReachedFrom(schema, InnerOf(schema, from), seen \cup InnerOf(schema, from))

\* no Definition of the schema refers to itself, directly or through others
Acyclic(schema) ==
    \A d \in DOMAIN schema.definitions : d \notin ReachedFrom(schema, {d}, {})

\* the names the first loop of compress_schema gave
NewNames(schema) == RenameLoop(<<schema.declaration>>, <<>>, 0, schema)

\* the pairs of a variant or field list keep their names and their order,
\* and refer to the new names
SamePairs(old, new, m) ==
    /\ Len(new) = Len(old)
    /\ \A i \in DOMAIN old :
          new[i][1] = old[i][1] /\ new[i][2] = NewNameOf(m, old[i][2])

\* the declarations of a list keep their order and are the new names
SameList(old, new, m) ==
    /\ Len(new) = Len(old)
    /\ \A i \in DOMAIN old : new[i] = NewNameOf(m, old[i])

\* the Definition `new` is the Definition `old` with the new names
SameStructure(old, new, m) ==
    /\ new.k = old.k
    /\ old.k = "Array" => new.length = old.length /\ new.elements = NewNameOf(m, old.elements)
    /\ old.k = "Sequence" => new.elements = NewNameOf(m, old.elements)
    /\ old.k = "Tuple" => SameList(old.elements, new.elements, m)
    /\ old.k = "Enum" => SamePairs(old.variants, new.variants, m)
    /\ old.k = "Struct" =>
          /\ new.fields.f = old.fields.f
          /\ old.fields.f = "NamedFields" => SamePairs(old.fields.named, new.fields.named, m)
          /\ old.fields.f = "UnnamedFields" =>
                SameList(old.fields.unnamed, new.fields.unnamed, m)

\* C22: for a schema without cycles, compress_schema holds under the new name
\* of every user declaration that is reachable from the root and has a
\* Definition, a Definition of the same kind, array length, number and order
\* of elements, variants and fields, and variant and field names, with each
\* declaration it refers to replaced by its new name (the declarations the
\* renaming skips keep theirs); the new definitions hold no other key
CompressionKeepsStructure ==
    (/\ cmd = "compress"
     /\ Acyclic(schema_in)
     /\ schema_in.declaration \in DOMAIN schema_in.definitions)
        => /\ compressed.st = "Ok"
           /\ compressed.declaration = NewNames(schema_in)[schema_in.declaration]
           /\ DOMAIN schema_in.definitions \subseteq DOMAIN NewNames(schema_in)
           /\ DOMAIN compressed.definitions =
                  {NewNames(schema_in)[d] : d \in DOMAIN schema_in.definitions}
           /\ \A d \in DOMAIN schema_in.definitions :
                 SameStructure(schema_in.definitions[d],
                               compressed.definitions[NewNames(schema_in)[d]],
                               NewNames(schema_in))
           /\ \A n \in SkippedNames : NewNameOf(NewNames(schema_in), n) = n

\* the struct "P" of test2's shape: the root and its child are renamed, the
\* field names and the primitives stay
CompressionKeepsStructureSeen ==
    /\ cmd = "compress"
    /\ schema_in = Some(SchemaOf(d_P))
    /\ compressed.st = "Ok"
    /\ compressed.declaration = <<0>>
    /\ DOMAIN compressed.definitions = {<<0>>, <<1>>}
    /\ compressed.definitions[<<0>>] =
           NamedFields(<< <<k_integer, s_u32>>, <<k_child, <<1>>>> >>)
    /\ compressed.definitions[<<1>>] =
           NamedFields(<< <<k_s, s_string>>, <<k_b, s_bool>> >>)

\* C23: compress_schema returns a Schema after finitely many steps for every
\* schema whose root has a Definition, also one that refers to itself or has a
\* cycle over several Definitions: both the renaming loop and the rebuilding
\* come to an end
CompressionTerminates ==
    (cmd = "compress" /\ schema_in.declaration \in DOMAIN schema_in.definitions)
        => /\ compressed.st = "Ok"
           /\ result = Ok

\* the recursive enum "L": the renaming loop ends with one name for it, the
\* rebuilding calls itself for "L" under "L" and never returns
CompressionTerminatesSeen ==
    /\ cmd = "compress"
    /\ schema_in = Some(SchemaOf(d_L))
    /\ ~Acyclic(schema_in)
    /\ DOMAIN NewNames(schema_in) = {d_L, d_Z}
    /\ compressed.st = "StackOverflow"
    /\ result = Panic("StackOverflow")

\* C24: compress_schema never allocates a new name for one of the fourteen
\* primitive declarations, f32 and f64 among them, and every reference to one
\* of them in a Definition stands unchanged at the same position of the new
\* Definition
PrimitivesPassThrough ==
    cmd = "compress"
        => /\ \A p \in Primitives : p \notin DOMAIN NewNames(schema_in)
           /\ compressed.st = "Ok" =>
                 \A d \in DOMAIN schema_in.definitions \cap DOMAIN NewNames(schema_in) :
                    /\ NewNames(schema_in)[d] \in DOMAIN compressed.definitions
                    /\ \A i \in DOMAIN get_inner_definitions(schema_in.definitions[d]) :
                          get_inner_definitions(schema_in.definitions[d])[i] \in Primitives
                              => get_inner_definitions(
                                     compressed.definitions[NewNames(schema_in)[d]])[i]
                                 = get_inner_definitions(schema_in.definitions[d])[i]

\* the tuple "F" of an f64 and a bool: the bool stays, the f64 has become the
\* declaration of the second allocated name, which no Definition declares
PrimitivesPassThroughSeen ==
    /\ cmd = "compress"
    /\ schema_in = Some(SchemaOf(d_F))
    /\ NewNames(schema_in) = (d_F :> <<0>>) @@ (s_f64 :> <<1>>)
    /\ compressed = Compressed(<<0>>, <<0>> :> Tuple(<< <<1>>, s_bool >>))

\* C25: on a schema whose root is a primitive, compress_schema returns a
\* schema without failing: its root is the same primitive and it has no
\* definitions
PrimitiveRootCompressed ==
    (cmd = "compress" /\ schema_in.declaration \in Primitives)
        => /\ result = Ok
           /\ compressed = Compressed(schema_in.declaration, <<>>)

\* the root u8: the loop skips it, no name is allocated, and the lookup of
\* the root's new name for the result finds none
PrimitiveRootCompressedSeen ==
    /\ cmd = "compress"
    /\ schema_in = Some(SchemaOf(s_u8))
    /\ NewNames(schema_in) = <<>>
    /\ compressed = CompressFailed("Panic")
    /\ result = Panic("Panic")

\* a Unicode scalar value: a code point that is no surrogate
IsScalar(c) == c \in 0 .. MaxScalar /\ ~(c >= 55296 /\ c <= 57343)

\* the code point a UTF-8 sequence of one to four bytes stands for
ScalarOf(name) ==
    IF Len(name) = 1 THEN name[1]
    ELSE IF Len(name) = 2 THEN (name[1] - 192) * 64 + (name[2] - 128)
    ELSE IF Len(name) = 3
        THEN (name[1] - 224) * 4096 + (name[2] - 128) * 64 + (name[3] - 128)
    ELSE (name[1] - 240) * 262144 + (name[2] - 128) * 4096 + (name[3] - 128) * 64
             + (name[4] - 128)

\* the String holds one char, in its UTF-8 form
IsOneScalar(name) ==
    /\ Len(name) \in 1 .. 4
    /\ IsScalar(ScalarOf(name))
    /\ Utf8(ScalarOf(name)) = name

\* the last name given
LastGiven == allocated.given[Len(allocated.given)]

\* what a call of next_name leaves: the counter has grown, the name is the
\* first scalar value from the counter on, nothing but values that are no
\* scalars has been passed over, and the names given ascend, so that no two
\* of them are the same and none is one given before the counter got here
Allocation ==
    /\ allocated.st = "Ok"
    /\ allocated.code > allocated.before
    /\ IsOneScalar(LastGiven)
    /\ ScalarOf(LastGiven) >= allocated.before
    /\ allocated.code = ScalarOf(LastGiven) + 1
    /\ \A c \in allocated.before .. (ScalarOf(LastGiven) - 1) : ~IsScalar(c)
    /\ \A i, j \in DOMAIN allocated.given :
          i < j => ScalarOf(allocated.given[i]) < ScalarOf(allocated.given[j])

\* the declarations a schema refers to: its root and what its Definitions name
References(schema) ==
    {schema.declaration} \cup InnerOf(schema, DOMAIN schema.definitions)

\* what compress_schema leaves of the names: each is one scalar value, no two
\* declarations share one, and the result refers to nothing but primitives
\* and new names
Renaming ==
    /\ \A a \in DOMAIN NewNames(schema_in) : IsOneScalar(NewNames(schema_in)[a])
    /\ \A a, b \in DOMAIN NewNames(schema_in) :
          a # b => NewNames(schema_in)[a] # NewNames(schema_in)[b]
    /\ compressed.st = "Ok" =>
          References(compressed)
              \subseteq Primitives \cup {NewNames(schema_in)[a] : a \in DOMAIN NewNames(schema_in)}

\* C26: in compress_schema the counter only grows, each allocated name is
\* one valid Unicode scalar value (code points that are no scalars are
\* skipped), two different declarations never receive the same name, and
\* every declaration the new definitions refer to is a primitive or the new
\* name of a declaration of the input -- as long as the counter has not passed
\* the last scalar value U+10FFFF, that is for the first 1,112,064 names
NamesDistinctWhileScalarsLast ==
    /\ (cmd = "next_name" /\ ~Exhausted(allocated.before) /\ ~allocated.wrapped)
           => Allocation
    /\ cmd = "compress" => Renaming

\* C26 as stated, for every value of the counter
NamesDistinct ==
    /\ cmd = "next_name" => Allocation
    /\ cmd = "compress" => Renaming

\* two names from the counter U+D7FF on: U+D7FF, and U+E000 after the 2048
\* surrogates
NamesDistinctSeen ==
    /\ cmd = "next_name"
    /\ allocated.given = << <<237, 159, 191>>, <<238, 128, 128>> >>
    /\ allocated.before = 55296
    /\ allocated.code = 57345

\* the bytes of the input after the schema, as decode hands them to the walk
DataRead == Embedded.rest

\* the root of the embedded schema is the user declaration d
RootIs(d) == Embedded.v.declaration = d /\ d \in DOMAIN Embedded.v.definitions

\* C27: whenever decoding succeeds, the cursor has advanced by exactly the
\* length of the encoding of the returned value (nothing for a Struct with
\* Empty fields, the elements without a prefix for an Array, 4 and the
\* elements for a Sequence, 1 and the payload for an Enum), the bytes after it
\* are untouched, and encoding the returned value again under the same schema
\* gives the bytes that were consumed
DecoderConsumesExactly ==
    /\ (cmd = "decode" /\ result = Ok)
          => /\ Len(walk.rest) <= Len(DataRead)
             /\ walk.rest = Drop(DataRead, Len(DataRead) - Len(walk.rest))
             /\ RootIs(d_Z) => walk.rest = DataRead
             /\ RootIs(d_R) => Len(walk.rest) = Len(DataRead) - 2
             /\ RootIs(d_Q) =>
                    Len(walk.rest) = Len(DataRead) - (4 + U32Nat(Take(DataRead, 4)))
             /\ RootIs(d_E) =>
                    Len(walk.rest) = Len(DataRead) - (1 + DataRead[1])
    /\ (cmd = "encode" /\ prev.cmd = "decode")
          => /\ result = Ok
             /\ walk.out = Consumed
             /\ output = SerSchema(schema_in) \o Consumed

\* the eight bytes FF under the root i64: decode takes them all and writes
\* -1, and the encoder, given -1 under i64, gives an error
DecoderConsumesExactlySeen ==
    /\ cmd = "encode"
    /\ prev.cmd = "decode"
    /\ schema_in = Some(SchemaOf(s_i64))
    /\ Consumed = Ones(8)
    /\ prev.walk.rest = <<>>
    /\ json_in = JNeg(Ones(8))
    /\ result = IOError("WriteBorsh", <<>>)
    /\ walk.out = <<>>

\* the keys of the named fields the root of the embedded schema declares
DeclaredKeys ==
    [i \in DOMAIN Embedded.v.definitions[Embedded.v.declaration].fields.named |->
        Embedded.v.definitions[Embedded.v.declaration].fields.named[i][1]]

\* the root of the embedded schema is a Struct with named fields
NamedRoot ==
    /\ Embedded.ok
    /\ Embedded.v.declaration \in DOMAIN Embedded.v.definitions
    /\ Embedded.v.definitions[Embedded.v.declaration].k = "Struct"
    /\ Embedded.v.definitions[Embedded.v.declaration].fields.f = "NamedFields"

\* C28: the JSON object the decoder produces for a Struct with named fields
\* lists its keys in the order the schema declares the fields, and decoding
\* the same bytes under the same schema again gives the same key order
DecodedKeyOrder ==
    (cmd = "decode" /\ result = Ok /\ NamedRoot)
        => /\ json_out.t = "obj"
           /\ Keys(json_out.o) = DeclaredKeys
           /\ \A h \in 0 .. (HashSeeds - 1) :
                 Keys(DecodeExecute(input, h, TRUE).json_out.o) = Keys(json_out.o)

\* the struct S = {a: u8, b: bool} from the bytes 01 01: the object holds
\* both fields, "b" before "a"
DecodedKeyOrderSeen ==
    /\ cmd = "decode"
    /\ input = SerSchema(SchemaOf(d_S)) \o <<1, 1>>
    /\ result = Ok
    /\ json_out = JObj(<< <<k_b, JBool(TRUE)>>, <<k_a, JPos(LE(1, 8))>> >>)
    /\ DeclaredKeys = <<k_a, k_b>>

\* the bytes of an f32 and of an f64
FloatWidth(declaration) == IF declaration = s_f32 THEN 4 ELSE 8

\* C29: the decoder and the encoder treat f32 and f64 as primitives: 4 and 8
\* bytes on the binary side, a JSON number on the JSON side, never looked up
\* in the definitions, so that a schema that refers to them without defining
\* them decodes and encodes without the failure of a dangling declaration
FloatsArePrimitives ==
    /\ (cmd = "decode" /\ Embedded.ok)
          => /\ (/\ Embedded.v.declaration \in {s_f32, s_f64}
                 /\ Len(DataRead) >= FloatWidth(Embedded.v.declaration))
                   => /\ result = Ok
                      /\ json_out.t = "num"
                      /\ Len(walk.rest) = Len(DataRead) - FloatWidth(Embedded.v.declaration)
             /\ Embedded.v.declaration \in {s_f32, s_f64, d_F} => result.st # "Panic"
    /\ (cmd = "encode" /\ ~schema_in.none)
          => /\ (schema_in.declaration \in {s_f32, s_f64} /\ json_in.t = "num")
                   => /\ result = Ok
                      /\ Len(walk.out) = FloatWidth(schema_in.declaration)
             /\ schema_in.declaration \in {s_f32, s_f64, d_F} => result.st # "Panic"

\* the schema of f64 and eight bytes: the walk has no arm for "f64", finds
\* no Definition of that name and ends in todo!(); nothing is written
FloatsArePrimitivesSeen ==
    /\ cmd = "decode"
    /\ Embedded.ok
    /\ Embedded.v = SchemaOf(s_f64)
    /\ Len(DataRead) = 8
    /\ walk.panic
    /\ result.st = "Panic"
    /\ json_out = NoJson
    /\ output = <<>>

\* the buffer is the beginning of the encoding, and shorter
ProperPrefix(buf, encoding) ==
    Len(buf) < Len(encoding) /\ buf = Take(encoding, Len(buf))

\* the root of the embedded schema is a Sequence of one-byte elements
ByteSequenceRoot ==
    /\ Embedded.v.declaration \in DOMAIN Embedded.v.definitions
    /\ Embedded.v.definitions[Embedded.v.declaration].k = "Sequence"
    /\ Embedded.v.definitions[Embedded.v.declaration].elements \in {s_u8, s_i8}

\* the data after the schema is the beginning of a valid encoding under the
\* root and stops short of its end: a primitive of fewer bytes than its
\* width, a Sequence whose length prefix is cut or promises more elements
\* than remain, an Enum without its index byte, or any encoding of the model
\* cut short
Truncated ==
    \/ /\ Embedded.v.declaration
              \in {s_u8, s_u16, s_u32, s_u64, s_i8, s_i16, s_i32, s_i64}
       /\ Len(DataRead) < IntWidth(Embedded.v.declaration)
    \/ /\ Embedded.v.declaration \in {s_u128, s_i128}
       /\ Len(DataRead) < 16
    \/ /\ ByteSequenceRoot
       /\ \/ Len(DataRead) < 4
          \/ U32Nat(Take(DataRead, 4)) > Len(DataRead) - 4
    \/ /\ Embedded.v.declaration \in DOMAIN Embedded.v.definitions
       /\ Embedded.v.definitions[Embedded.v.declaration].k = "Enum"
       /\ DataRead = <<>>
    \/ \E encoding \in DataOf(Embedded.v) : ProperPrefix(DataRead, encoding)

\* the data is one byte and more under the root bool, the first neither 0 nor 1
InvalidBool ==
    /\ Embedded.v.declaration = s_bool
    /\ DataRead # <<>>
    /\ DataRead[1] \notin {0, 1}

\* C30: on data that is a proper prefix of a valid encoding under the root
\* of the schema, and on a bool byte other than 0 and 1, the decoder returns
\* an error value and no JSON value; decode, extract and strip on an input
\* without a schema at its start return an error and write nothing
TruncatedIsAnError ==
    /\ (cmd = "decode" /\ Embedded.ok /\ (Truncated \/ InvalidBool))
          => /\ ~walk.ok
             /\ ~walk.panic
             /\ result.st = "Err"
             /\ json_out = NoJson
             /\ output = <<>>
    /\ (cmd \in {"decode", "extract", "strip"} /\ ~Embedded.ok)
          => /\ result = IOError("DeserializeBorsh: schema", <<>>)
             /\ json_out = NoJson
             /\ output = <<>>

\* the schema of Q = Sequence(i8) and eight bytes FF: the length prefix
\* promises 2^32 - 1 elements of which four remain; room for all of them is
\* asked for before the first is read, the allocator refuses, and the
\* process is aborted
TruncatedIsAnErrorSeen ==
    /\ cmd = "decode"
    /\ Embedded.ok
    /\ Embedded.v = SchemaOf(d_Q)
    /\ DataRead = Ones(8)
    /\ Truncated
    /\ walk = DPanic("memory allocation failed")
    /\ result = Panic("memory allocation failed")
    /\ json_out = NoJson

=============================================================================
